---- MODULE Spec2Model ----
(***************************************************************************)
(* Model of the hallucination-hunter pipeline core:                        *)
(*   src/src/layers/retrieval.py     RetrievalLayer, EvidenceResult        *)
(*   src/src/layers/verification.py  VerificationLayer                     *)
(*   src/src/layers/drift.py         DriftMitigationLayer                  *)
(*   src/src/layers/scoring.py       ScoringLayer, TrustScore              *)
(*   src/src/layers/ui_integration.py UIIntegrationLayer.run_audit         *)
(*   src/src/utils/caching.py        CacheManager                          *)
(*                                                                         *)
(* Scores are exact rationals <<n, d>> (d > 0) standing for the Python     *)
(* floats; inputs are written in hundredths (P(80) is 0.8).                *)
(* Text is a sequence of tokens; a numeric literal is a token of Nums.     *)
(***************************************************************************)
EXTENDS Integers, Sequences, FiniteSets, TLC

VARIABLES
    op,                      \* the operation the caller last invoked ("idle" between calls)
    args,                    \* the arguments of that call
    ret,                     \* what the call returned (or that it raised)
    verification,            \* the VerificationLayer object: entity_match_threshold
    retrieval,               \* the RetrievalLayer object: top_k, similarity_threshold,
                             \* vector_weight, keyword_weight, _bm25_index/_bm25_chunks
    drift,                   \* the DriftMitigationLayer object: variance_threshold,
                             \* confidence_penalty, _drift_report
    scoring,                 \* the ScoringLayer object: the four weights and the
                             \* severity multiplier of its domain
    audits,                  \* the run_audit executions on the integration layer:
                             \* each one's request, position and local variables
    cache,                   \* the CacheManager object (_memory_cache in insertion
                             \* order) and the .cache files of its directory
    clock,                   \* time.time(), in seconds
    stored                   \* per key, what the caller last passed to set()

vars == <<op, args, ret, verification, retrieval, drift, scoring, audits, cache, clock, stored>>

-----------------------------------------------------------------------------
(* Bounds *)

\* entities per claim
MaxEntities == 2
\* tokens per claim text
MaxNums == 2
\* chunks per EvidenceResult handed to verify_claim
MaxChunks == 4
\* claims per verify_claims_batch call
MaxBatch == 2
\* chunks of the larger document set
MaxDocChunks == 3
\* claims per retrieve_evidence_batch call
MaxBatchClaims == 2
\* distinct entity texts of a claim handed to the rerank
MaxRerankEntities == 2
\* entries per drift report
MaxDriftEntries == 2
\* verification results per adjust_verification_results call
MaxDriftResults == 2
\* verification results per calculate_trust_score call
MaxResults == 5
\* the largest max_memory_items of a cache manager
MaxMemoryItems == 2
\* the largest max_memory_items of a cache manager with a directory
MaxDiskMemoryItems == 1
\* the seconds that pass
MaxTime == 1

-----------------------------------------------------------------------------
(* Program constants *)

DEFAULT_ENTITY_MATCH_THRESHOLD == 90
DEFAULT_TOP_K == 7
DEFAULT_SIMILARITY_THRESHOLD == 50
DEFAULT_HYBRID_WEIGHT_VECTOR == 60
DEFAULT_HYBRID_WEIGHT_KEYWORD == 40
ENTITY_BONUS == 10
CombinedMaxChunks == 3
DEFAULT_WEIGHT_SUPPORTED_RATIO == 40
DEFAULT_WEIGHT_AVG_CONFIDENCE == 30
DEFAULT_WEIGHT_DRIFT_SCORE == 20
DEFAULT_WEIGHT_SEVERITY == 10
DEFAULT_DRIFT_VARIANCE_THRESHOLD == 20
DEFAULT_DRIFT_CONFIDENCE_PENALTY == 10
PENALTY_SCALE == 5
PENALTY_CAP == 50
FUZZY_MATCH_THRESHOLD == 90
DEFAULT_TTL == 3600
DEFAULT_MAX_MEMORY_ITEMS == 1000

-----------------------------------------------------------------------------
(* Float arithmetic as exact rationals *)

RECURSIVE GCD(_, _)
GCD(a, b) == IF b = 0 THEN a ELSE GCD(b, a % b)
Abs(x) == IF x < 0 THEN -x ELSE x
\* n/d in lowest terms, d > 0
Rat(n, d) == LET g == GCD(Abs(n), d) IN <<n \div g, d \div g>>
P(x) == Rat(x, 100)
RLt(a, b) == a[1] * b[2] < b[1] * a[2]
RLe(a, b) == a[1] * b[2] <= b[1] * a[2]
RGt(a, b) == RLt(b, a)
RGe(a, b) == RLe(b, a)
\* rationals are kept in lowest terms with a positive denominator, so equal
\* values are equal pairs
REq(a, b) == a = b
RMul(a, b) == Rat(a[1] * b[1], a[2] * b[2])
RAdd(a, b) == Rat(a[1] * b[2] + b[1] * a[2], a[2] * b[2])
ROneMinus(a) == Rat(a[2] - a[1], a[2])
RSub(a, b) == Rat(a[1] * b[2] - b[1] * a[2], a[2] * b[2])
\* Python min/max return the first argument on ties
RMin(a, b) == IF RLt(b, a) THEN b ELSE a
RMax(a, b) == IF RGt(b, a) THEN b ELSE a

\* a / b for b > 0
RDiv(a, b) == Rat(a[1] * b[2], a[2] * b[1])

RECURSIVE SumSeq(_)
SumSeq(s) == IF s = <<>> THEN 0 ELSE Head(s) + SumSeq(Tail(s))

RECURSIVE RSumSeq(_)
RSumSeq(s) == IF s = <<>> THEN Rat(0, 1) ELSE RAdd(Head(s), RSumSeq(Tail(s)))

SeqsUpTo(S, n) == UNION {[1..k -> S] : k \in 0..n}

\* a list given element by element, as the list of its elements
List(s) == SubSeq(s, 1, Len(s))

-----------------------------------------------------------------------------
(* Text *)

Nums == {"100", "200"}
Sep == "\n\n"

RECURSIVE JoinSep(_)
JoinSep(texts) ==
    IF texts = <<>> THEN <<>>
    ELSE IF Len(texts) = 1 THEN texts[1]
    ELSE texts[1] \o <<Sep>> \o JoinSep(Tail(texts))

\* re.findall(r'\b\d+\.?\d*\b', text): the numeric literals, in order
FindNumbers(text) == SelectSeq(text, LAMBDA t : t \in Nums)

\* str.split(): the whitespace-separated words
SplitWords(text) == SelectSeq(text, LAMBDA t : t # Sep)

-----------------------------------------------------------------------------
(* EvidenceResult *)

get_combined_evidence(evidence, max_chunks) ==
    JoinSep([i \in 1..(IF Len(evidence.evidence_chunks) < max_chunks
                       THEN Len(evidence.evidence_chunks) ELSE max_chunks)
                |-> evidence.evidence_chunks[i].content])

-----------------------------------------------------------------------------
(* RetrievalLayer *)

MinInt(a, b) == IF a < b THEN a ELSE b
TopK(results, k) == SubSeq(results, 1, MinInt(k, Len(results)))
Reverse(s) == [i \in 1..Len(s) |-> s[Len(s) + 1 - i]]

\* list.sort(key=score, reverse=True): stable, descending; an element goes to
\* the position after every larger one and every equal one that came earlier
SortDesc(results) ==
    LET list == List(results)
        before(i) == Cardinality({j \in 1..Len(list) :
                          \/ RGt(list[j].score, list[i].score)
                          \/ j < i /\ REq(list[j].score, list[i].score)})
    IN List([p \in 1..Len(list) |-> list[CHOOSE i \in 1..Len(list) : before(i) = p - 1]])

\* max(r[1] for r in results), of a non-empty list
MaxScore(results) ==
    results[CHOOSE i \in 1..Len(results) :
                \A j \in 1..Len(results) : RGe(results[i].score, results[j].score)].score

\* "x or settings.x": an argument of 0 is replaced like an omitted one
RetrievalLayer(top_k, similarity_threshold, vector_weight, keyword_weight) ==
    [top_k |-> IF top_k # 0 THEN top_k ELSE DEFAULT_TOP_K,
     similarity_threshold |-> IF similarity_threshold # 0 THEN P(similarity_threshold)
                              ELSE P(DEFAULT_SIMILARITY_THRESHOLD),
     vector_weight |-> IF vector_weight # 0 THEN P(vector_weight)
                       ELSE P(DEFAULT_HYBRID_WEIGHT_VECTOR),
     keyword_weight |-> IF keyword_weight # 0 THEN P(keyword_weight)
                        ELSE P(DEFAULT_HYBRID_WEIGHT_KEYWORD),
     bm25_built |-> FALSE,
     bm25_chunks |-> <<>>]

RetrievalLayerInit(k) == RetrievalLayer(k, 0, 0, 0)

\* BM25Okapi(tokenized) divides by the corpus size: an empty chunk list raises
\* before the layer is assigned anything
build_bm25_index(layer, chunks) ==
    IF chunks = <<>>
    THEN [raised |-> TRUE, layer |-> layer]
    ELSE [raised |-> FALSE,
          layer |-> [layer EXCEPT !.bm25_built = TRUE, !.bm25_chunks = chunks]]

\* "if not self._bm25_index: self.build_bm25_index(doc_index.chunks)"
ensure_bm25_index(layer, doc_index) ==
    IF ~layer.bm25_built
    THEN build_bm25_index(layer, doc_index.chunks)
    ELSE [raised |-> FALSE, layer |-> layer]

\* DocumentIndex.search: the k chunks of largest inner product, best first
\* (vec[i] is the inner product of the query with chunk i, in hundredths)
vector_search(doc_index, vec, k) ==
    TopK(SortDesc([i \in 1..Len(doc_index.chunks) |->
                      [chunk |-> doc_index.chunks[i], score |-> P(vec[i])]]), k)

\* np.argsort(scores)[::-1][:k], keeping the scores > 0
\* (kw[i] is the BM25 score of the query for indexed chunk i, in hundredths)
keyword_search(layer, kw, k) ==
    IF ~layer.bm25_built \/ layer.bm25_chunks = <<>>
    THEN <<>>
    ELSE LET scored == [i \in 1..Len(layer.bm25_chunks) |->
                           [chunk |-> layer.bm25_chunks[i], score |-> P(kw[i])]]
             top == TopK(SortDesc(Reverse(scored)), k)
         IN SelectSeq(top, LAMBDA r : RGt(r.score, P(0)))

IndexOfChunk(results, chunk_id) ==
    IF \E i \in 1..Len(results) : results[i].chunk.chunk_id = chunk_id
    THEN CHOOSE i \in 1..Len(results) : results[i].chunk.chunk_id = chunk_id
    ELSE 0

Normalized(score, max_score) ==
    IF RGt(max_score, P(0)) THEN RDiv(score, max_score) ELSE P(0)

\* the dictionary "combined", in insertion order: the vector results, then the
\* keyword results that are no vector result
hybrid_combined(vector_results, keyword_results) ==
    LET max_vector == IF vector_results = <<>> THEN P(0) ELSE MaxScore(vector_results)
        max_keyword == IF keyword_results = <<>> THEN P(0) ELSE MaxScore(keyword_results)
        from_vector ==
            [i \in 1..Len(vector_results) |->
                LET j == IndexOfChunk(keyword_results, vector_results[i].chunk.chunk_id) IN
                [chunk |-> vector_results[i].chunk,
                 vector_score |-> Normalized(vector_results[i].score, max_vector),
                 keyword_score |-> IF j = 0 THEN P(0)
                                   ELSE Normalized(keyword_results[j].score, max_keyword)]]
        keyword_only ==
            SelectSeq(keyword_results,
                      LAMBDA r : IndexOfChunk(vector_results, r.chunk.chunk_id) = 0)
        from_keyword ==
            [i \in 1..Len(keyword_only) |->
                [chunk |-> keyword_only[i].chunk,
                 vector_score |-> P(0),
                 keyword_score |-> Normalized(keyword_only[i].score, max_keyword)]]
    IN from_vector \o from_keyword

FinalScores(layer, combined) ==
    List([i \in 1..Len(combined) |->
             [chunk |-> combined[i].chunk,
              score |-> RAdd(RMul(layer.vector_weight, combined[i].vector_score),
                             RMul(layer.keyword_weight, combined[i].keyword_score))]])

\* the list "final_results" before it is sorted: every distinct chunk of the
\* n vector and n keyword candidates with its fused score
fused_scores(layer, doc_index, vec, kw, n) ==
    FinalScores(layer, hybrid_combined(vector_search(doc_index, vec, n),
                                       keyword_search(layer, kw, n)))

\* plausible slip: k candidates from each method instead of 2k
hybrid_search_k_candidates(layer, doc_index, vec, kw, k) ==
    TopK(SortDesc(fused_scores(layer, doc_index, vec, kw, k)), k)

\* the layer is the one left by the "ensure BM25 index is built" step
hybrid_search(layer, doc_index, vec, kw, k) ==
    TopK(SortDesc(fused_scores(layer, doc_index, vec, kw, k * 2)), k)

Search(layer, doc_index, method, vec, kw) ==
    IF method = "vector" THEN vector_search(doc_index, vec, layer.top_k)
    ELSE IF method = "keyword" THEN keyword_search(layer, kw, layer.top_k)
    ELSE hybrid_search(layer, doc_index, vec, kw, layer.top_k)

\* plausible slip: no forced top-1 fallback
FilterByThreshold_no_fallback(layer, results) ==
    SelectSeq(results, LAMBDA r : RGe(r.score, layer.similarity_threshold))

FilterByThreshold(layer, results) ==
    LET filtered_results ==
            SelectSeq(results, LAMBDA r : RGe(r.score, layer.similarity_threshold))
    IN IF filtered_results = <<>> THEN TopK(results, 1) ELSE filtered_results

\* ", ".join(parts)
RECURSIVE JoinComma(_)
JoinComma(parts) ==
    IF Len(parts) = 1 THEN parts[1]
    ELSE parts[1] \o ", " \o JoinComma(Tail(parts))

\* the value of a citation that was never generated
None == "None"

\* a page_number of 0 stands for None and a line_start or line_end of 0 for
\* a metadata key that is absent; all three are falsy to the code
get_citation_string(evidence_chunks) ==
    IF evidence_chunks = <<>>
    THEN "No evidence found"
    ELSE LET chunk == evidence_chunks[1] IN
         JoinComma(<<chunk.document_name>>
                   \o (IF chunk.page_number # 0
                       THEN <<"Page " \o ToString(chunk.page_number)>> ELSE <<>>)
                   \o (IF chunk.line_start # 0
                       THEN <<"Lines " \o ToString(chunk.line_start) \o "-"
                              \o (IF chunk.line_end # 0 THEN ToString(chunk.line_end)
                                  ELSE "?")>>
                       ELSE <<>>))

\* the EvidenceResult built from the search results
EvidenceResultOf(layer, claim_id, method, results) ==
    LET filtered_results == FilterByThreshold(layer, results)
        chunks == [i \in 1..Len(filtered_results) |-> filtered_results[i].chunk]
    IN [claim_id |-> claim_id,
        evidence_chunks |-> chunks,
        scores |-> [i \in 1..Len(filtered_results) |-> filtered_results[i].score],
        retrieval_method |-> method,
        citation |-> IF chunks # <<>> THEN get_citation_string(chunks) ELSE None]

\* retrieve_evidence after the index was ensured: layer is the layer then
retrieve_evidence(layer, claim_id, doc_index, method, vec, kw) ==
    EvidenceResultOf(layer, claim_id, method, Search(layer, doc_index, method, vec, kw))

\* found[i] is the number of the claim's distinct entity texts that occur in
\* chunk i of the evidence result; entity_count the number of those texts
rerank_by_entity_match(entity_count, evidence_result, found) ==
    IF entity_count = 0 \/ evidence_result.evidence_chunks = <<>>
    THEN evidence_result
    ELSE LET reranked ==
                 SortDesc([i \in 1..Len(evidence_result.evidence_chunks) |->
                     [chunk |-> evidence_result.evidence_chunks[i],
                      score |-> RMin(RAdd(evidence_result.scores[i],
                                          Rat(found[i] * ENTITY_BONUS, 100)),
                                     P(100))]])
         IN [claim_id |-> evidence_result.claim_id,
             evidence_chunks |-> [i \in 1..Len(reranked) |-> reranked[i].chunk],
             scores |-> [i \in 1..Len(reranked) |-> reranked[i].score],
             retrieval_method |-> evidence_result.retrieval_method \o "+entity_rerank",
             citation |-> get_citation_string(evidence_result.evidence_chunks)]

\* "return evidence_result": the object handed back is the argument itself
rerank_returns_argument(entity_count, evidence_result) ==
    entity_count = 0 \/ evidence_result.evidence_chunks = <<>>

\* plausible slip: the argument's own lists are re-scored and sorted in place
rerank_argument_after_in_place(entity_count, evidence_result, found) ==
    LET r == rerank_by_entity_match(entity_count, evidence_result, found) IN
    [evidence_result EXCEPT !.evidence_chunks = r.evidence_chunks, !.scores = r.scores]

\* the argument object after the call: the loop reads its lists through
\* zip, and the sort works on the list the call built
rerank_argument_after(entity_count, evidence_result, found) ==
    evidence_result

\* "vector" never touches the lexical index; "keyword" ensures it in
\* retrieve_evidence and every other method in hybrid_search
EnsureFor(layer, doc_index, method) ==
    IF method = "vector" THEN [raised |-> FALSE, layer |-> layer]
    ELSE ensure_bm25_index(layer, doc_index)

\* the whole call: the layer it leaves and the EvidenceResult, or the error
retrieve_evidence_call(layer, claim_id, doc_index, method, vec, kw) ==
    LET ensured == EnsureFor(layer, doc_index, method) IN
    IF ensured.raised
    THEN [raised |-> TRUE, layer |-> ensured.layer, value |-> <<>>, searched |-> <<>>]
    ELSE LET results == Search(ensured.layer, doc_index, method, vec, kw) IN
         [raised |-> FALSE, layer |-> ensured.layer,
          value |-> <<EvidenceResultOf(ensured.layer, claim_id, method, results)>>,
          searched |-> <<results>>]

retrieve_evidence_batch(layer, claims, doc_index, method, vecs, kws) ==
    LET ensured == EnsureFor(layer, doc_index, method) IN
    IF ensured.raised
    THEN [raised |-> TRUE, layer |-> ensured.layer, value |-> <<>>, searched |-> <<>>]
    ELSE LET results == List([i \in 1..Len(claims) |->
                            Search(ensured.layer, doc_index, method, vecs[i], kws[i])])
         IN [raised |-> FALSE, layer |-> ensured.layer,
             value |-> [i \in 1..Len(claims) |->
                           EvidenceResultOf(ensured.layer, claims[i], method, results[i])],
             searched |-> results]

-----------------------------------------------------------------------------
(* VerificationLayer *)

Supported == "supported"
Contradicted == "contradicted"
Unverifiable == "unverifiable"
ClaimCategory == {Supported, Contradicted, Unverifiable}

\* DOMAIN_CONFIGS: entity_match_threshold in hundredths, severity_multiplier
\* in tenths
Healthcare == "healthcare"
Law == "law"
Finance == "finance"
General == "general"
Domains == {Healthcare, Law, Finance, General}
DOMAIN_CONFIGS ==
    [healthcare |-> [severity_multiplier |-> 20, entity_match_threshold |-> 95],
     law |-> [severity_multiplier |-> 18, entity_match_threshold |-> 98],
     finance |-> [severity_multiplier |-> 19, entity_match_threshold |-> 95],
     general |-> [severity_multiplier |-> 10, entity_match_threshold |-> 90]]

\* "entity_match_threshold or settings.entity_match_threshold": an argument
\* of 0 stands for None as well; the domain's own threshold is not applied here
VerificationLayer(domain, entity_match_threshold) ==
    [domain |-> domain,
     entity_match_threshold |-> IF entity_match_threshold # 0 THEN entity_match_threshold
                                ELSE DEFAULT_ENTITY_MATCH_THRESHOLD]

set_domain(layer, domain) ==
    [domain |-> domain,
     entity_match_threshold |-> DOMAIN_CONFIGS[domain].entity_match_threshold]

\* An entity carries what the two string comparisons of
\* _check_entity_consistency yield against the evidence of the call:
\*   exact: entity.text.lower() in evidence.lower()
\*   best : the best SequenceMatcher ratio over the 1..3-grams, in hundredths
find_similar_entity(entity, text) ==
    IF SplitWords(text) = <<>> THEN 0 ELSE entity.best

\* plausible slip: the possible-contradiction band opens above 0.5
EntityMatchOf_above_half(entity, text, threshold) ==
    IF entity.exact /\ SplitWords(text) # <<>>
    THEN [claim_entity |-> entity, similarity |-> P(100),
          is_match |-> TRUE, is_contradiction |-> FALSE]
    ELSE LET best_score == find_similar_entity(entity, text) IN
         IF best_score >= threshold
         THEN [claim_entity |-> entity, similarity |-> P(best_score),
               is_match |-> TRUE, is_contradiction |-> FALSE]
         ELSE IF best_score > 50
         THEN [claim_entity |-> entity, similarity |-> P(best_score),
               is_match |-> FALSE, is_contradiction |-> TRUE]
         ELSE [claim_entity |-> entity, similarity |-> P(0),
               is_match |-> FALSE, is_contradiction |-> FALSE]

EntityMatchOf(entity, text, threshold) ==
    IF entity.exact /\ SplitWords(text) # <<>>
    THEN [claim_entity |-> entity, similarity |-> P(100),
          is_match |-> TRUE, is_contradiction |-> FALSE]
    ELSE LET best_score == find_similar_entity(entity, text) IN
         IF best_score >= threshold
         THEN [claim_entity |-> entity, similarity |-> P(best_score),
               is_match |-> TRUE, is_contradiction |-> FALSE]
         ELSE IF best_score >= 50
         THEN [claim_entity |-> entity, similarity |-> P(best_score),
               is_match |-> FALSE, is_contradiction |-> TRUE]
         ELSE [claim_entity |-> entity, similarity |-> P(0),
               is_match |-> FALSE, is_contradiction |-> FALSE]

check_entity_consistency(claim, text, threshold) ==
    [i \in 1..Len(claim.entities) |-> EntityMatchOf(claim.entities[i], text, threshold)]

\* Entity.severity_weight, kept in tenths
severity_weight(entity) == Rat(entity.w, 10)

\* sum(m.similarity * m.claim_entity.severity_weight for m in matches if m.is_match)
weighted_score(matches) ==
    RSumSeq([i \in 1..Len(matches) |->
                IF matches[i].is_match
                THEN RMul(matches[i].similarity, severity_weight(matches[i].claim_entity))
                ELSE Rat(0, 1)])

\* plausible slip: the weighted sum divided by the number of entities
calculate_entity_score_per_entity(matches) ==
    IF matches = <<>> THEN P(100)
    ELSE RDiv(weighted_score(matches), Rat(Len(matches), 1))

calculate_entity_score(matches) ==
    IF matches = <<>> THEN P(100)
    ELSE LET total_weight ==
                 RSumSeq([i \in 1..Len(matches) |-> severity_weight(matches[i].claim_entity)])
         IN IF RGt(total_weight, Rat(0, 1)) THEN RDiv(weighted_score(matches), total_weight)
            ELSE P(100)

check_numerical_consistency(claim, text) ==
    LET claim_numbers == FindNumbers(claim.text)
        evidence_numbers == FindNumbers(text)
        hit(i) == \E j \in 1..Len(evidence_numbers) : evidence_numbers[j] = claim_numbers[i]
        matches == Cardinality({i \in 1..Len(claim_numbers) : hit(i)})
    IN IF claim_numbers = <<>> THEN P(100) ELSE Rat(matches, Len(claim_numbers))

has_entity_contradiction(entity_matches) ==
    \E i \in 1..Len(entity_matches) : entity_matches[i].is_contradiction

\* plausible slip: the numerical mismatch rule tested before the NLI contradiction rule
fuse_signals_numeric_first(nli, entity_score, numerical_score, entity_matches) ==
    IF /\ RGt(nli.entailment_score, P(80))
       /\ RGt(entity_score, P(90))
       /\ RGt(numerical_score, P(80))
       /\ ~has_entity_contradiction(entity_matches)
    THEN <<Supported, RMin(nli.entailment_score, entity_score)>>
    ELSE IF RLt(numerical_score, P(50))
    THEN <<Contradicted, P(70)>>
    ELSE IF RGt(nli.contradiction_score, P(70))
    THEN <<Contradicted, nli.contradiction_score>>
    ELSE IF has_entity_contradiction(entity_matches) /\ RLt(entity_score, P(70))
    THEN <<Contradicted, RMax(nli.contradiction_score, ROneMinus(entity_score))>>
    ELSE IF /\ RGt(nli.entailment_score, P(60))
            /\ RGt(entity_score, P(70))
            /\ ~has_entity_contradiction(entity_matches)
    THEN <<Supported, RMul(nli.entailment_score, entity_score)>>
    ELSE <<Unverifiable, RMax(nli.neutral_score, P(50))>>

\* plausible slip: moderate support tested before the numerical mismatch rule
fuse_signals_support_first(nli, entity_score, numerical_score, entity_matches) ==
    IF /\ RGt(nli.entailment_score, P(80))
       /\ RGt(entity_score, P(90))
       /\ RGt(numerical_score, P(80))
       /\ ~has_entity_contradiction(entity_matches)
    THEN <<Supported, RMin(nli.entailment_score, entity_score)>>
    ELSE IF RGt(nli.contradiction_score, P(70))
    THEN <<Contradicted, nli.contradiction_score>>
    ELSE IF has_entity_contradiction(entity_matches) /\ RLt(entity_score, P(70))
    THEN <<Contradicted, RMax(nli.contradiction_score, ROneMinus(entity_score))>>
    ELSE IF /\ RGt(nli.entailment_score, P(60))
            /\ RGt(entity_score, P(70))
            /\ ~has_entity_contradiction(entity_matches)
    THEN <<Supported, RMul(nli.entailment_score, entity_score)>>
    ELSE IF RLt(numerical_score, P(50))
    THEN <<Contradicted, P(70)>>
    ELSE <<Unverifiable, RMax(nli.neutral_score, P(50))>>

\* plausible slip: the numerical mismatch rule left out
fuse_signals_no_numeric_rule(nli, entity_score, numerical_score, entity_matches) ==
    IF /\ RGt(nli.entailment_score, P(80))
       /\ RGt(entity_score, P(90))
       /\ RGt(numerical_score, P(80))
       /\ ~has_entity_contradiction(entity_matches)
    THEN <<Supported, RMin(nli.entailment_score, entity_score)>>
    ELSE IF RGt(nli.contradiction_score, P(70))
    THEN <<Contradicted, nli.contradiction_score>>
    ELSE IF has_entity_contradiction(entity_matches) /\ RLt(entity_score, P(70))
    THEN <<Contradicted, RMax(nli.contradiction_score, ROneMinus(entity_score))>>
    ELSE IF /\ RGt(nli.entailment_score, P(60))
            /\ RGt(entity_score, P(70))
            /\ ~has_entity_contradiction(entity_matches)
    THEN <<Supported, RMul(nli.entailment_score, entity_score)>>
    ELSE <<Unverifiable, RMax(nli.neutral_score, P(50))>>

fuse_signals(nli, entity_score, numerical_score, entity_matches) ==
    IF /\ RGt(nli.entailment_score, P(80))
       /\ RGt(entity_score, P(90))
       /\ RGt(numerical_score, P(80))
       /\ ~has_entity_contradiction(entity_matches)
    THEN <<Supported, RMin(nli.entailment_score, entity_score)>>
    ELSE IF RGt(nli.contradiction_score, P(70))
    THEN <<Contradicted, nli.contradiction_score>>
    ELSE IF has_entity_contradiction(entity_matches) /\ RLt(entity_score, P(70))
    THEN <<Contradicted, RMax(nli.contradiction_score, ROneMinus(entity_score))>>
    ELSE IF RLt(numerical_score, P(50))
    THEN <<Contradicted, P(70)>>
    ELSE IF /\ RGt(nli.entailment_score, P(60))
            /\ RGt(entity_score, P(70))
            /\ ~has_entity_contradiction(entity_matches)
    THEN <<Supported, RMul(nli.entailment_score, entity_score)>>
    ELSE <<Unverifiable, RMax(nli.neutral_score, P(50))>>

create_unverifiable_result(claim, evidence) ==
    [claim_id |-> claim.claim_id,
     claim_text |-> claim.text,
     category |-> Unverifiable,
     confidence |-> P(50),
     nli_result |-> [entailment_score |-> P(0), contradiction_score |-> P(0),
                     neutral_score |-> P(100)],
     entity_matches |-> <<>>,
     evidence_used |-> <<>>,
     entity_consistency_score |-> P(0),
     numerical_accuracy_score |-> P(0),
     nli_calls |-> 0]

\* plausible slip: the empty-evidence short-circuit left out
verify_claim_no_short_circuit(claim, evidence, nli, threshold) ==
    LET evidence_text == get_combined_evidence(evidence, CombinedMaxChunks)
        entity_matches == check_entity_consistency(claim, evidence_text, threshold)
        entity_score == calculate_entity_score(entity_matches)
        numerical_score == check_numerical_consistency(claim, evidence_text)
        fused == fuse_signals(nli, entity_score, numerical_score, entity_matches)
    IN [claim_id |-> claim.claim_id,
        claim_text |-> claim.text,
        category |-> fused[1],
        confidence |-> fused[2],
        nli_result |-> nli,
        entity_matches |-> entity_matches,
        evidence_used |-> evidence_text,
        entity_consistency_score |-> entity_score,
        numerical_accuracy_score |-> numerical_score,
        nli_calls |-> 1]

\* nli is what classify_with_multiple_evidences returns when it is called
verify_claim(claim, evidence, nli, threshold) ==
    LET evidence_text == get_combined_evidence(evidence, CombinedMaxChunks) IN
    IF evidence_text = <<>>
    THEN create_unverifiable_result(claim, evidence)
    ELSE LET entity_matches == check_entity_consistency(claim, evidence_text, threshold)
             entity_score == calculate_entity_score(entity_matches)
             numerical_score == check_numerical_consistency(claim, evidence_text)
             fused == fuse_signals(nli, entity_score, numerical_score, entity_matches)
         IN [claim_id |-> claim.claim_id,
             claim_text |-> claim.text,
             category |-> fused[1],
             confidence |-> fused[2],
             nli_result |-> nli,
             entity_matches |-> entity_matches,
             evidence_used |-> evidence_text,
             entity_consistency_score |-> entity_score,
             numerical_accuracy_score |-> numerical_score,
             nli_calls |-> 1]

\* plausible slip: no length check, zip() silently truncating to the shorter list
verify_claims_batch_zip_only(claims, evidences, nlis, threshold) ==
    LET n == IF Len(claims) < Len(evidences) THEN Len(claims) ELSE Len(evidences)
        results == [i \in 1..n |-> verify_claim(claims[i], evidences[i], nlis[i], threshold)]
    IN [raised |-> FALSE,
        value |-> results,
        nli_calls |-> SumSeq([i \in 1..Len(results) |-> results[i].nli_calls])]

verify_claims_batch(claims, evidences, nlis, threshold) ==
    IF Len(claims) # Len(evidences)
    THEN [raised |-> TRUE, value |-> <<>>, nli_calls |-> 0]
    ELSE LET results == [i \in 1..Len(claims) |->
                            verify_claim(claims[i], evidences[i], nlis[i], threshold)]
         IN [raised |-> FALSE,
             value |-> results,
             nli_calls |-> SumSeq([i \in 1..Len(results) |-> results[i].nli_calls])]

-----------------------------------------------------------------------------
(* Inputs of the verification layer *)

EntVals == {60, 70, 80, 98}
ConVals == {10, 70, 90}
NeuVals == {20, 80}
NLIResults == [entailment_score : {P(x) : x \in EntVals},
               contradiction_score : {P(x) : x \in ConVals},
               neutral_score : {P(x) : x \in NeuVals}]

\* exact match; or not found (0.30), possible contradiction (0.70), fuzzy match (0.95)
Entities == [w : {10, 20}, exact : {TRUE}, best : {100}]
            \cup [w : {10, 20}, exact : {FALSE}, best : {30, 70, 95}]

ClaimIds == {"c1", "c2"}

EvidenceChunks == [content : {<<>>, <<"100">>, <<"w">>}]

\* verify_claim is exercised on two grids of inputs:
\* every claim and NLI output against one chunk of evidence, ...
SignalClaims == [claim_id : {"c1"},
                 text : SeqsUpTo(Nums, MaxNums),
                 entities : SeqsUpTo(Entities, MaxEntities)]
SignalEvidences == {[claim_id |-> "c1",
                     evidence_chunks |-> <<[content |-> <<"w", "100">>]>>]}
SignalInputs == [claim : SignalClaims, evidence : SignalEvidences, nli : NLIResults]

\* ... and every list of evidence chunks against a few claims and NLI outputs
ProbeNLIResults == {[entailment_score |-> P(95), contradiction_score |-> P(10),
                     neutral_score |-> P(20)],
                    [entailment_score |-> P(60), contradiction_score |-> P(90),
                     neutral_score |-> P(20)]}
ProbeClaims == [claim_id : {"c1"},
                text : {<<>>, <<"100">>},
                entities : {<<>>, <<[w |-> 10, exact |-> TRUE, best |-> 100]>>}]
ProbeEvidences == [claim_id : {"c1"},
                   evidence_chunks : SeqsUpTo(EvidenceChunks, MaxChunks)]
EvidenceInputs == [claim : ProbeClaims, evidence : ProbeEvidences, nli : ProbeNLIResults]

VerifyInputs == SignalInputs \cup EvidenceInputs

\* the batch operation is exercised on lists of a few claims and evidences
BatchClaims == [claim_id : ClaimIds, text : {<<>>, <<"200">>}, entities : {<<>>}]
BatchEvidences == [claim_id : ClaimIds,
                   evidence_chunks : {<<>>, <<[content |-> <<"100">>]>>}]

NoArgs == [none |-> TRUE]
NoRet == [none |-> TRUE]

-----------------------------------------------------------------------------
(* DriftMitigationLayer *)

\* "variance_threshold or settings.drift_variance_threshold": an argument of
\* 0 stands for None as well, both take the setting (in hundredths)
DriftMitigationLayerInit(variance_threshold, confidence_penalty) ==
    [variance_threshold |-> IF variance_threshold # 0 THEN P(variance_threshold)
                            ELSE P(DEFAULT_DRIFT_VARIANCE_THRESHOLD),
     confidence_penalty |-> IF confidence_penalty # 0 THEN P(confidence_penalty)
                            ELSE P(DEFAULT_DRIFT_CONFIDENCE_PENALTY),
     drift_report |-> <<>>]

\* what DriftDetector.analyze_claim_drift reports for a claim whose variants
\* have the drift score d (in hundredths): the detector is constructed
\* without arguments, so its flag compares with the default threshold
ClaimDrift(claim, d) ==
    [claim |-> claim,
     drift_score |-> P(d),
     is_stable |-> ~RGt(P(d), P(DEFAULT_DRIFT_VARIANCE_THRESHOLD))]

\* EmbeddingModel.similarity of two claim texts: "t2" paraphrases "t3", and
\* "t2" is close to "t1" but not beyond the fuzzy threshold
EmbeddingSimilarity(text1, text2) ==
    IF text1 = text2 THEN P(100)
    ELSE IF {text1, text2} = {"t2", "t3"} THEN P(95)
    ELSE IF {text1, text2} = {"t1", "t2"} THEN P(FUZZY_MATCH_THRESHOLD)
    ELSE P(50)

\* plausible slip: no cap on the penalty
calculate_penalty_uncapped(layer, drift_score) ==
    IF RLe(drift_score, layer.variance_threshold)
    THEN P(0)
    ELSE RMul(RMul(RSub(drift_score, layer.variance_threshold), layer.confidence_penalty),
              Rat(PENALTY_SCALE, 1))

calculate_penalty(layer, drift_score) ==
    IF RLe(drift_score, layer.variance_threshold)
    THEN P(0)
    ELSE LET excess_drift == RSub(drift_score, layer.variance_threshold)
         IN RMin(RMul(RMul(excess_drift, layer.confidence_penalty),
                      Rat(PENALTY_SCALE, 1)),
                 P(PENALTY_CAP))

\* the first element of a non-empty set of positions
First(S) == CHOOSE i \in S : \A j \in S : i <= j

\* report is <<>> for None and <<r>> for the DriftReport r; so is the result
find_claim_drift(claim_text, report) ==
    IF report = <<>>
    THEN <<>>
    ELSE LET claim_drifts == report[1].claim_drifts
             exact == {i \in 1..Len(claim_drifts) : claim_drifts[i].claim = claim_text}
             similar == {i \in 1..Len(claim_drifts) :
                            RGt(EmbeddingSimilarity(claim_text, claim_drifts[i].claim),
                                P(FUZZY_MATCH_THRESHOLD))}
         IN IF exact # {} THEN <<claim_drifts[First(exact)]>>
            ELSE IF similar # {} THEN <<claim_drifts[First(similar)]>>
            ELSE <<>>

\* plausible slip: the penalty is subtracted from the confidence
DriftAdjustedResult_subtracted(layer, result, claim_drift) ==
    IF claim_drift # <<>> /\ ~claim_drift[1].is_stable
    THEN LET penalty == calculate_penalty(layer, claim_drift[1].drift_score) IN
         [original_result |-> result,
          drift_analysis |-> claim_drift,
          adjusted_confidence |-> RSub(result.confidence, penalty),
          drift_penalty |-> penalty,
          is_stable |-> FALSE]
    ELSE [original_result |-> result,
          drift_analysis |-> claim_drift,
          adjusted_confidence |-> result.confidence,
          drift_penalty |-> P(0),
          is_stable |-> TRUE]

\* the DriftAdjustedResult of one verification result
DriftAdjustedResult(layer, result, claim_drift) ==
    IF claim_drift # <<>> /\ ~claim_drift[1].is_stable
    THEN LET penalty == calculate_penalty(layer, claim_drift[1].drift_score) IN
         [original_result |-> result,
          drift_analysis |-> claim_drift,
          adjusted_confidence |-> RMul(result.confidence, ROneMinus(penalty)),
          drift_penalty |-> penalty,
          is_stable |-> FALSE]
    ELSE [original_result |-> result,
          drift_analysis |-> claim_drift,
          adjusted_confidence |-> result.confidence,
          drift_penalty |-> P(0),
          is_stable |-> TRUE]

\* plausible slip: every matched entry is penalised, stable or not
adjust_verification_results_any_match(layer, verification_results, drift_report) ==
    LET report == IF drift_report # <<>> THEN drift_report ELSE layer.drift_report
    IN List([i \in 1..Len(verification_results) |->
                LET claim_drift == find_claim_drift(verification_results[i].claim_text,
                                                    report)
                IN DriftAdjustedResult(layer, verification_results[i],
                       IF claim_drift = <<>> THEN <<>>
                       ELSE <<[claim_drift[1] EXCEPT !.is_stable = FALSE]>>)])

\* "report = drift_report or self._drift_report"
adjust_verification_results(layer, verification_results, drift_report) ==
    LET report == IF drift_report # <<>> THEN drift_report ELSE layer.drift_report
    IN List([i \in 1..Len(verification_results) |->
                DriftAdjustedResult(layer, verification_results[i],
                    find_claim_drift(verification_results[i].claim_text, report))])

-----------------------------------------------------------------------------
(* ScoringLayer *)

\* "weight_supported or settings.weight_supported_ratio": an argument of 0
\* stands for None as well (weights in hundredths); severity_multiplier is
\* the one of the layer's domain, in tenths
ScoringLayerInit(weight_supported, weight_confidence, weight_drift, weight_severity, severity_multiplier) ==
    [weight_supported |-> IF weight_supported # 0 THEN P(weight_supported)
                          ELSE P(DEFAULT_WEIGHT_SUPPORTED_RATIO),
     weight_confidence |-> IF weight_confidence # 0 THEN P(weight_confidence)
                           ELSE P(DEFAULT_WEIGHT_AVG_CONFIDENCE),
     weight_drift |-> IF weight_drift # 0 THEN P(weight_drift)
                      ELSE P(DEFAULT_WEIGHT_DRIFT_SCORE),
     weight_severity |-> IF weight_severity # 0 THEN P(weight_severity)
                         ELSE P(DEFAULT_WEIGHT_SEVERITY),
     severity_multiplier |-> Rat(severity_multiplier, 10)]

High == "high"
Medium == "medium"
Low == "low"
Critical == "critical"

\* TrustZone: (min, max, label)
ZoneHigh == [min |-> 80, max |-> 100, label |-> "Good"]
ZoneMedium == [min |-> 50, max |-> 80, label |-> "Review Needed"]
ZoneLow == [min |-> 0, max |-> 50, label |-> "Unreliable"]

get_zone(score) ==
    IF RGe(score, Rat(80, 1)) THEN ZoneHigh
    ELSE IF RGe(score, Rat(50, 1)) THEN ZoneMedium
    ELSE ZoneLow

\* round(x, 1) of x >= 0: the nearest tenth, the even one when x lies
\* exactly half way between two tenths
Round1(x) ==
    LET n == x[1] * 10
        d == x[2]
        q == n \div d
        r == n % d
    IN IF 2 * r < d THEN Rat(q, 10)
       ELSE IF 2 * r > d THEN Rat(q + 1, 10)
       ELSE IF q % 2 = 0 THEN Rat(q, 10)
       ELSE Rat(q + 1, 10)

CountOf(results, category) ==
    Cardinality({i \in 1..Len(results) : results[i].category = category})

\* plausible slip: "if" for the second test, so that a supported result is
\* counted as unverifiable as well
calculate_category_stats_double_count(results) ==
    [supported |-> CountOf(results, Supported),
     contradicted |-> CountOf(results, Contradicted),
     unverifiable |-> Len(results) - CountOf(results, Contradicted)]

calculate_category_stats(results) ==
    [supported |-> CountOf(results, Supported),
     contradicted |-> CountOf(results, Contradicted),
     unverifiable |-> Cardinality({i \in 1..Len(results) :
                          results[i].category \notin {Supported, Contradicted}})]

\* CategoryStats.total
StatsTotal(stats) == stats.supported + stats.contradicted + stats.unverifiable

\* claim_map.get(result.claim_id): the last claim of that id, <<>> for None
ClaimOf(claims, claim_id) ==
    LET S == {i \in 1..Len(claims) : claims[i].claim_id = claim_id}
    IN IF S = {} THEN <<>>
       ELSE <<claims[CHOOSE i \in S : \A j \in S : j <= i]>>

\* plausible slip: the count-based severity left at 0
calculate_severity_score_zero(layer, results, claims) ==
    IF claims = <<>>
    THEN P(0)
    ELSE LET weight(i) ==
                 LET claim == ClaimOf(claims, results[i].claim_id) IN
                 IF claim = <<>> THEN P(0)
                 ELSE RMul(claim[1].max_severity_weight, layer.severity_multiplier)
             total_severity ==
                 RSumSeq([i \in 1..Len(results) |-> weight(i)])
             contradicted_severity ==
                 RSumSeq([i \in 1..Len(results) |->
                             IF results[i].category = Contradicted
                             THEN weight(i) ELSE P(0)])
         IN IF REq(total_severity, P(0)) THEN P(0)
            ELSE RDiv(contradicted_severity, total_severity)

calculate_severity_score(layer, results, claims) ==
    IF claims = <<>>
    THEN IF CountOf(results, Contradicted) = 0 \/ results = <<>>
         THEN P(0)
         ELSE Rat(CountOf(results, Contradicted), Len(results))
    ELSE LET weight(i) ==
                 LET claim == ClaimOf(claims, results[i].claim_id) IN
                 IF claim = <<>> THEN P(0)
                 ELSE RMul(claim[1].max_severity_weight, layer.severity_multiplier)
             total_severity ==
                 RSumSeq([i \in 1..Len(results) |-> weight(i)])
             contradicted_severity ==
                 RSumSeq([i \in 1..Len(results) |->
                             IF results[i].category = Contradicted
                             THEN weight(i) ELSE P(0)])
         IN IF REq(total_severity, P(0)) THEN P(0)
            ELSE RDiv(contradicted_severity, total_severity)

\* plausible slip: the claim's order, "critical" tested before "medium"
determine_trust_level_critical_first(score, stats) ==
    IF RGe(score, Rat(80, 1)) /\ stats.contradicted = 0 THEN High
    ELSE IF RGt(Rat(stats.contradicted, 1), RMul(Rat(StatsTotal(stats), 1), P(30)))
    THEN Critical
    ELSE IF RGe(score, Rat(50, 1)) THEN Medium
    ELSE Low

determine_trust_level(score, stats) ==
    IF RGe(score, Rat(80, 1)) /\ stats.contradicted = 0 THEN High
    ELSE IF RGe(score, Rat(50, 1)) THEN Medium
    ELSE IF RGt(Rat(stats.contradicted, 1), RMul(Rat(StatsTotal(stats), 1), P(30)))
    THEN Critical
    ELSE Low

get_flagged_claims(results) ==
    LET flagged == SelectSeq(results, LAMBDA r :
                       \/ r.category = Contradicted
                       \/ r.category = Unverifiable /\ RLt(r.confidence, P(60)))
    IN [i \in 1..Len(flagged) |-> flagged[i].claim_text]

ReviewContradicted(n) ==
    "Review " \o ToString(n) \o " contradicted claim(s) and consider corrections."
LackEvidence ==
    "Many claims lack sufficient evidence. Consider adding more source documents."
LowTrustScore ==
    "Low trust score indicates significant issues. Manual review strongly recommended."
LowConfidence(n) ==
    ToString(n) \o " claims have low confidence scores. Consider reviewing these."
PassesHigh == "Document passes verification with high confidence."
PassesMinor == "Document passes verification. Minor review suggested."
NoClaims == "No claims to verify."

LowConfidenceCount(results) ==
    Cardinality({i \in 1..Len(results) : RLt(results[i].confidence, P(60))})

\* plausible slip: an elif chain, so that only the first trigger is reported
generate_recommendations_first_only(score, stats, results) ==
    IF stats.contradicted > 0 THEN <<ReviewContradicted(stats.contradicted)>>
    ELSE IF RGt(Rat(stats.unverifiable, 1), RMul(Rat(StatsTotal(stats), 1), P(30)))
    THEN <<LackEvidence>>
    ELSE IF RLt(score, Rat(50, 1)) THEN <<LowTrustScore>>
    ELSE IF LowConfidenceCount(results) > 3
    THEN <<LowConfidence(LowConfidenceCount(results))>>
    ELSE IF RGe(score, Rat(80, 1)) THEN <<PassesHigh>>
    ELSE <<PassesMinor>>

generate_recommendations(score, stats, results) ==
    LET recommendations ==
            (IF stats.contradicted > 0
             THEN <<ReviewContradicted(stats.contradicted)>> ELSE <<>>)
            \o (IF RGt(Rat(stats.unverifiable, 1),
                       RMul(Rat(StatsTotal(stats), 1), P(30)))
                THEN <<LackEvidence>> ELSE <<>>)
            \o (IF RLt(score, Rat(50, 1)) THEN <<LowTrustScore>> ELSE <<>>)
            \o (IF LowConfidenceCount(results) > 3
                THEN <<LowConfidence(LowConfidenceCount(results))>> ELSE <<>>)
    IN IF recommendations = <<>>
       THEN IF RGe(score, Rat(80, 1)) THEN <<PassesHigh>> ELSE <<PassesMinor>>
       ELSE recommendations

ZeroBreakdown ==
    [supported_ratio |-> P(0), supported_contribution |-> P(0),
     avg_confidence |-> P(0), confidence_contribution |-> P(0),
     drift_score |-> P(0), drift_contribution |-> P(0),
     severity_score |-> P(0), severity_contribution |-> P(0)]

\* plausible slip: the empty result carries no recommendation
empty_trust_score_no_recommendation ==
    [score |-> P(0), level |-> Low, breakdown |-> ZeroBreakdown,
     category_counts |-> [supported |-> 0, contradicted |-> 0, unverifiable |-> 0],
     total_claims |-> 0, flagged_claims |-> <<>>, recommendations |-> <<>>,
     zone |-> ZoneLow]

empty_trust_score ==
    [score |-> P(0), level |-> Low, breakdown |-> ZeroBreakdown,
     category_counts |-> [supported |-> 0, contradicted |-> 0, unverifiable |-> 0],
     total_claims |-> 0, flagged_claims |-> <<>>, recommendations |-> <<NoClaims>>,
     zone |-> ZoneLow]

Mean(values) == RDiv(RSumSeq(values), Rat(Len(values), 1))

\* max(0, min(100, score_components * 100))
FinalScore(layer, supported_ratio, avg_confidence, drift_score, severity_score) ==
    LET score_components ==
            RAdd(RAdd(RMul(supported_ratio, layer.weight_supported),
                      RMul(avg_confidence, layer.weight_confidence)),
                 RAdd(RMul(ROneMinus(drift_score), layer.weight_drift),
                      RMul(ROneMinus(severity_score), layer.weight_severity)))
    IN RMax(Rat(0, 1), RMin(Rat(100, 1), RMul(score_components, Rat(100, 1))))

\* the TrustScore of a non-empty result list, from its component values
TrustScoreOf(layer, results, stats, supported_ratio, avg_confidence, drift_score, severity_score, final_score) ==
    [score |-> Round1(final_score),
     level |-> determine_trust_level(final_score, stats),
     breakdown |->
        [supported_ratio |-> supported_ratio,
         supported_contribution |->
             RMul(RMul(supported_ratio, layer.weight_supported), Rat(100, 1)),
         avg_confidence |-> avg_confidence,
         confidence_contribution |->
             RMul(RMul(avg_confidence, layer.weight_confidence), Rat(100, 1)),
         drift_score |-> drift_score,
         drift_contribution |->
             RMul(RMul(ROneMinus(drift_score), layer.weight_drift), Rat(100, 1)),
         severity_score |-> severity_score,
         severity_contribution |->
             RMul(RMul(ROneMinus(severity_score), layer.weight_severity), Rat(100, 1))],
     category_counts |-> [supported |-> stats.supported,
                          contradicted |-> stats.contradicted,
                          unverifiable |-> stats.unverifiable],
     total_claims |-> StatsTotal(stats),
     flagged_claims |-> get_flagged_claims(results),
     recommendations |-> generate_recommendations(final_score, stats, results),
     zone |-> get_zone(final_score)]

\* what a call on a non-empty result list computes: the TrustScore it returns
\* and, for the caller to see, final_score before it is rounded
WithFinalScore(layer, results, stats, supported_ratio, avg_confidence, drift_score, severity_score, final_score) ==
    [trust_score |-> TrustScoreOf(layer, results, stats, supported_ratio, avg_confidence,
                                  drift_score, severity_score, final_score),
     final_score |-> <<final_score>>]

Scored(layer, results, stats, supported_ratio, avg_confidence, drift_score, severity_score) ==
    WithFinalScore(layer, results, stats, supported_ratio, avg_confidence, drift_score,
                   severity_score,
                   FinalScore(layer, supported_ratio, avg_confidence, drift_score,
                              severity_score))

\* the empty result is returned before any score is computed
Empty(trust_score) == [trust_score |-> trust_score, final_score |-> <<>>]

\* plausible slip: the raw confidences are averaged although drift-adjusted
\* results were passed
calculate_trust_score_raw_confidence(layer, verification_results, drift_adjusted_results, claims) ==
    IF verification_results = <<>>
    THEN Empty(empty_trust_score)
    ELSE LET stats == calculate_category_stats(verification_results) IN
         Scored(layer, verification_results, stats,
                IF StatsTotal(stats) > 0
                THEN Rat(stats.supported, StatsTotal(stats)) ELSE P(0),
                Mean([i \in 1..Len(verification_results) |->
                         verification_results[i].confidence]),
                IF drift_adjusted_results # <<>>
                THEN Mean([i \in 1..Len(drift_adjusted_results) |->
                              drift_adjusted_results[i].drift_penalty])
                ELSE P(0),
                calculate_severity_score(layer, verification_results, claims))

\* drift_adjusted_results and claims are <<>> for None and for the empty list,
\* which the code does not tell apart
calculate_trust_score(layer, verification_results, drift_adjusted_results, claims) ==
    IF verification_results = <<>>
    THEN Empty(empty_trust_score)
    ELSE LET stats == calculate_category_stats(verification_results) IN
         Scored(layer, verification_results, stats,
                IF StatsTotal(stats) > 0
                THEN Rat(stats.supported, StatsTotal(stats)) ELSE P(0),
                IF drift_adjusted_results # <<>>
                THEN Mean([i \in 1..Len(drift_adjusted_results) |->
                              drift_adjusted_results[i].adjusted_confidence])
                ELSE Mean([i \in 1..Len(verification_results) |->
                              verification_results[i].confidence]),
                IF drift_adjusted_results # <<>>
                THEN Mean([i \in 1..Len(drift_adjusted_results) |->
                              drift_adjusted_results[i].drift_penalty])
                ELSE P(0),
                calculate_severity_score(layer, verification_results, claims))

\* flagged_claims[:5]
MaxFlaggedShown == 5

\* TrustScore.to_dict
to_dict(trust_score) ==
    [score |-> trust_score.score,
     level |-> trust_score.level,
     zone |-> trust_score.zone,
     breakdown |-> trust_score.breakdown,
     category_counts |-> trust_score.category_counts,
     total_claims |-> trust_score.total_claims,
     flagged_claims |-> SubSeq(trust_score.flagged_claims, 1,
                               MinInt(MaxFlaggedShown, Len(trust_score.flagged_claims))),
     recommendations |-> trust_score.recommendations]

-----------------------------------------------------------------------------
(* CacheManager *)

\* CacheManager.__init__: cache_dir is whether a directory was given
CacheManagerInit(cache_dir, default_ttl, max_memory_items, enabled) ==
    [cache_dir |-> cache_dir,
     default_ttl |-> default_ttl,
     max_memory_items |-> max_memory_items,
     enabled |-> enabled,
     memory_cache |-> <<>>,
     files |-> <<>>]

CacheEntry(value, created_at, ttl, key) ==
    [value |-> value, created_at |-> created_at, ttl |-> ttl, key |-> key]

\* CacheEntry.is_expired at the time now
is_expired(entry, now) == now > entry.created_at + entry.ttl

\* the positions of key in a list of entries (at most one)
PositionsOf(entries, key) == {i \in 1..Len(entries) : entries[i].key = key}
Holds(entries, key) == PositionsOf(entries, key) # {}
EntryOf(entries, key) == entries[First(PositionsOf(entries, key))]
\* "del d[key]"
Without(entries, key) == SelectSeq(entries, LAMBDA e : e.key # key)
\* "d[key] = entry": a key the dict holds keeps its place, a new one goes last
Assigned(entries, key, entry) ==
    IF Holds(entries, key)
    THEN [i \in 1..Len(entries) |-> IF entries[i].key = key THEN entry ELSE entries[i]]
    ELSE Append(entries, entry)

\* min(keys, key=created_at): the first of the entries created earliest
OldestKey(entries) ==
    entries[First({i \in 1..Len(entries) :
                      \A j \in 1..Len(entries) :
                         entries[i].created_at <= entries[j].created_at})].key

\* min() of no keys raises ValueError
add_to_memory(manager, key, entry) ==
    IF Len(manager.memory_cache) >= manager.max_memory_items
    THEN IF manager.memory_cache = <<>>
         THEN [raised |-> TRUE, manager |-> manager]
         ELSE LET oldest_key == OldestKey(manager.memory_cache) IN
              [raised |-> FALSE,
               manager |-> [manager EXCEPT !.memory_cache =
                               Assigned(Without(manager.memory_cache, oldest_key),
                                        key, entry)]]
    ELSE [raised |-> FALSE,
          manager |-> [manager EXCEPT !.memory_cache =
                          Assigned(manager.memory_cache, key, entry)]]

\* the disk part of get, on the manager the memory part left; an error of
\* _add_to_memory is swallowed by "except Exception: pass"
get_from_disk(manager, key, now) ==
    IF manager.cache_dir /\ Holds(manager.files, key)
    THEN LET entry == EntryOf(manager.files, key) IN
         IF ~is_expired(entry, now)
         THEN LET added == add_to_memory(manager, key, entry) IN
              IF added.raised
              THEN [value |-> <<>>, manager |-> manager]
              ELSE [value |-> <<entry.value>>, manager |-> added.manager]
         ELSE [value |-> <<>>,
               manager |-> [manager EXCEPT !.files = Without(manager.files, key)]]
    ELSE [value |-> <<>>, manager |-> manager]

\* value is <<>> for None and <<v>> for the cached value v
get(manager, key, now) ==
    IF ~manager.enabled
    THEN [value |-> <<>>, manager |-> manager]
    ELSE IF Holds(manager.memory_cache, key)
            /\ ~is_expired(EntryOf(manager.memory_cache, key), now)
    THEN [value |-> <<EntryOf(manager.memory_cache, key).value>>, manager |-> manager]
    ELSE get_from_disk([manager EXCEPT !.memory_cache = Without(manager.memory_cache, key)],
                       key, now)

\* ttl is <<>> for None and <<t>> for t seconds
set(manager, key, value, ttl, persist, now) ==
    IF ~manager.enabled
    THEN [raised |-> FALSE, manager |-> manager]
    ELSE LET entry == CacheEntry(value, now,
                                 IF ttl # <<>> THEN ttl[1] ELSE manager.default_ttl, key)
             added == add_to_memory(manager, key, entry)
         IN IF added.raised
            THEN [raised |-> TRUE, manager |-> manager]
            ELSE IF persist /\ manager.cache_dir
            THEN [raised |-> FALSE,
                  manager |-> [added.manager EXCEPT !.files =
                                  Assigned(added.manager.files, key, entry)]]
            ELSE added

delete(manager, key) ==
    [value |-> Holds(manager.memory_cache, key)
                 \/ (manager.cache_dir /\ Holds(manager.files, key)),
     manager |-> [manager EXCEPT
                     !.memory_cache = Without(manager.memory_cache, key),
                     !.files = IF manager.cache_dir
                               THEN Without(manager.files, key) ELSE manager.files]]

-----------------------------------------------------------------------------
(* Operations of the verification layer *)

\* the caller holds the arguments it passed and what the call handed back
Returned(name, passed, result) ==
    /\ op' = name
    /\ args' = passed
    /\ ret' = result

VerifiedOne(result) ==
    [raised |-> FALSE, value |-> <<result>>, nli_calls |-> result.nli_calls]

VerifyClaim ==
    /\ op = "idle"
    /\ \E input \in VerifyInputs :
          Returned("verify_claim", input,
                   VerifiedOne(verify_claim(input.claim, input.evidence, input.nli,
                                            verification.entity_match_threshold)))
    /\ UNCHANGED <<verification, retrieval, drift, scoring, audits, cache, clock, stored>>

VerifyClaimsBatch ==
    /\ op = "idle"
    /\ \E claims \in SeqsUpTo(BatchClaims, MaxBatch),
          evidences \in SeqsUpTo(BatchEvidences, MaxBatch) :
          \E nlis \in [1..Len(claims) -> ProbeNLIResults] :
             Returned("verify_claims_batch",
                      [claims |-> claims, evidences |-> evidences, nlis |-> nlis],
                      verify_claims_batch(claims, evidences, nlis,
                                          verification.entity_match_threshold))
    /\ UNCHANGED <<verification, retrieval, drift, scoring, audits, cache, clock, stored>>

Return ==
    /\ op # "idle"
    /\ op' = "idle"
    /\ args' = NoArgs
    /\ ret' = NoRet
    /\ UNCHANGED <<verification, retrieval, drift, scoring, audits, cache, clock, stored>>

-----------------------------------------------------------------------------
(* Construction of the layers *)

\* an optional constructor argument: omitted, 0, or a value of its own
\* (hundredths; a count for top_k)
Arguments == {<<>>, <<0>>, <<25>>}
TopKArguments == {<<>>, <<0>>, <<1>>}

\* "x or default" sees None and 0 alike: both reach the layer as falsy
Passed(x) == IF x = <<>> THEN 0 ELSE x[1]

ConstructScoring ==
    /\ op = "idle"
    /\ \E ws \in Arguments, wc \in Arguments, wd \in Arguments, wv \in Arguments :
          /\ scoring' = ScoringLayerInit(Passed(ws), Passed(wc), Passed(wd), Passed(wv), 10)
          /\ Returned("ScoringLayer",
                      [weight_supported |-> ws, weight_confidence |-> wc,
                       weight_drift |-> wd, weight_severity |-> wv],
                      [raised |-> FALSE, value |-> <<scoring'>>])
    /\ UNCHANGED <<verification, retrieval, drift, audits, cache, clock, stored>>

ConstructRetrieval ==
    /\ op = "idle"
    /\ \E k \in TopKArguments, st \in Arguments, vw \in Arguments, kw \in Arguments :
          /\ retrieval' = RetrievalLayer(Passed(k), Passed(st), Passed(vw), Passed(kw))
          /\ Returned("RetrievalLayer",
                      [top_k |-> k, similarity_threshold |-> st,
                       vector_weight |-> vw, keyword_weight |-> kw],
                      [raised |-> FALSE, value |-> <<retrieval'>>])
    /\ UNCHANGED <<verification, drift, scoring, audits, cache, clock, stored>>

ConstructDrift ==
    /\ op = "idle"
    /\ \E vt \in Arguments, cp \in Arguments :
          /\ drift' = DriftMitigationLayerInit(Passed(vt), Passed(cp))
          /\ Returned("DriftMitigationLayer",
                      [variance_threshold |-> vt, confidence_penalty |-> cp],
                      [raised |-> FALSE, value |-> <<drift'>>])
    /\ UNCHANGED <<verification, retrieval, scoring, audits, cache, clock, stored>>

ConstructVerification ==
    /\ op = "idle"
    /\ \E emt \in Arguments :
          /\ verification' = VerificationLayer(General, Passed(emt))
          /\ Returned("VerificationLayer",
                      [entity_match_threshold |-> emt],
                      [raised |-> FALSE, value |-> <<verification'>>])
    /\ UNCHANGED <<retrieval, drift, scoring, audits, cache, clock, stored>>

-----------------------------------------------------------------------------
(* Inputs and operations of the entity consistency check *)

\* similarities around 0.5 and around every threshold the layer can have
BestScores == {0, 49, 50, 59, 60, 89, 90, 94, 95, 97, 98, 99}
EntityProbes == [w : {10, 20}, exact : {TRUE}, best : {100}]
                \cup [w : {10, 20}, exact : {FALSE}, best : BestScores]
EntityClaims == [claim_id : {"c1"}, text : {<<>>},
                 entities : SeqsUpTo(EntityProbes, MaxEntities)]
EntityTexts == {<<>>, <<"w">>}
\* the entity_match_threshold argument of the constructor: omitted, or 0.6
ThresholdArguments == {0, 60}

SetDomain ==
    /\ op = "idle"
    /\ \E domain \in Domains :
          /\ Returned("set_domain", [domain |-> domain], [raised |-> FALSE, value |-> <<>>])
          /\ verification' = set_domain(verification, domain)
    /\ UNCHANGED <<retrieval, drift, scoring, audits, cache, clock, stored>>

\* the entity matches and the entity score verify_claim derives from them
CheckEntityConsistency ==
    /\ op = "idle"
    /\ \E claim \in EntityClaims, text \in EntityTexts :
          LET entity_matches == check_entity_consistency(claim, text,
                                    verification.entity_match_threshold)
          IN Returned("check_entity_consistency", [claim |-> claim, text |-> text],
                      [raised |-> FALSE, value |-> <<entity_matches>>,
                       entity_score |-> calculate_entity_score(entity_matches)])
    /\ UNCHANGED <<verification, retrieval, drift, scoring, audits, cache, clock, stored>>

-----------------------------------------------------------------------------
(* Inputs and operations of the retrieval layer *)

\* the location metadata differs from chunk to chunk: the first chunk of a
\* document has a page only, the second a line range only, the third a page and
\* a line_start without line_end, the others have none
Chunk(doc, i) ==
    [chunk_id |-> <<doc, i>>, document_name |-> doc,
     page_number |-> IF i \in {1, 3} THEN i ELSE 0,
     line_start |-> IF i \in {2, 3} THEN 10 * i ELSE 0,
     line_end |-> IF i = 2 THEN 10 * i + 5 ELSE 0,
     content |-> IF doc = "B" THEN <<"100">> ELSE <<"w">>]
DocumentIndex(doc, n) == [index_id |-> doc, chunks |-> [i \in 1..n |-> Chunk(doc, i)]]
\* two document sets and an empty one
DocSets == {DocumentIndex("A", MaxDocChunks), DocumentIndex("B", 1),
            DocumentIndex("E", 0)}
Methods == {"vector", "keyword", "hybrid"}
\* the top_k the layer is constructed with
TopKs == {1, 2}

VecVals == {-50, -20, 0, 50, 100}
KwVals == {0, 150, 300}
Unused(n) == [i \in 1..n |-> 0]
VecOracles(doc_index, method) ==
    IF method = "keyword" THEN {Unused(Len(doc_index.chunks))}
    ELSE [1..Len(doc_index.chunks) -> VecVals]
KwOracles(layer, method) ==
    IF method = "vector" THEN {Unused(Len(layer.bm25_chunks))}
    ELSE [1..Len(layer.bm25_chunks) -> KwVals]

\* the batch operation is exercised with two oracles of each kind per claim
BatchVecOracles(doc_index, method) ==
    IF method = "keyword" THEN {Unused(Len(doc_index.chunks))}
    ELSE {[i \in 1..Len(doc_index.chunks) |-> 100],
          [i \in 1..Len(doc_index.chunks) |-> IF i = 1 THEN 50 ELSE -20]}
BatchKwOracles(layer, method) ==
    IF method = "vector" THEN {Unused(Len(layer.bm25_chunks))}
    ELSE {[i \in 1..Len(layer.bm25_chunks) |-> 0],
          [i \in 1..Len(layer.bm25_chunks) |->
              IF i = Len(layer.bm25_chunks) THEN 300 ELSE 150]}

\* a retrieval call hands back its outcome and leaves the layer it worked on
Retrieved(name, passed, r) ==
    /\ Returned(name, passed,
                [raised |-> r.raised, value |-> r.value, searched |-> r.searched])
    /\ retrieval' = r.layer

\* the layer whose lexical index scores the queries of a call
IndexedLayer(doc_index, method) == EnsureFor(retrieval, doc_index, method).layer

RetrieveEvidence ==
    /\ op = "idle"
    /\ \E doc_index \in DocSets, method \in Methods :
          \E vec \in VecOracles(doc_index, method),
             kw \in KwOracles(IndexedLayer(doc_index, method), method) :
             Retrieved("retrieve_evidence",
                       [claims |-> <<"c1">>, doc_index |-> doc_index, method |-> method,
                        vecs |-> <<vec>>, kws |-> <<kw>>],
                       retrieve_evidence_call(retrieval, "c1", doc_index, method, vec, kw))
    /\ UNCHANGED <<verification, drift, scoring, audits, cache, clock, stored>>

RetrieveEvidenceBatch ==
    /\ op = "idle"
    /\ \E doc_index \in DocSets, method \in Methods, claims \in SeqsUpTo(ClaimIds, MaxBatchClaims) :
          \E vecs \in [1..Len(claims) -> BatchVecOracles(doc_index, method)],
             kws \in [1..Len(claims) ->
                         BatchKwOracles(IndexedLayer(doc_index, method), method)] :
             Retrieved("retrieve_evidence_batch",
                       [claims |-> claims, doc_index |-> doc_index, method |-> method,
                        vecs |-> vecs, kws |-> kws],
                       retrieve_evidence_batch(retrieval, claims, doc_index, method, vecs, kws))
    /\ UNCHANGED <<verification, drift, scoring, audits, cache, clock, stored>>

\* rerank_by_entity_match is exercised on the evidence results that
\* retrieve_evidence returns for the batch oracles on the larger document set
RerankDoc == DocumentIndex("A", MaxDocChunks)
RerankLayers ==
    {build_bm25_index(RetrievalLayerInit(k), RerankDoc.chunks).layer : k \in TopKs}
RerankInputs ==
    UNION {{retrieve_evidence(layer, "c1", RerankDoc, method, vec, kw) :
               vec \in BatchVecOracles(RerankDoc, method),
               kw \in BatchKwOracles(layer, method)} :
           layer \in RerankLayers, method \in Methods}

RerankByEntityMatch ==
    /\ op = "idle"
    /\ \E evidence_result \in RerankInputs, entity_count \in 0..MaxRerankEntities :
          \E found \in [1..Len(evidence_result.evidence_chunks) -> 0..entity_count] :
             Returned("rerank_by_entity_match",
                      [entity_count |-> entity_count, evidence_result |-> evidence_result,
                       found |-> found],
                      [raised |-> FALSE,
                       value |-> <<rerank_by_entity_match(entity_count, evidence_result,
                                                          found)>>,
                       is_argument |-> rerank_returns_argument(entity_count,
                                                               evidence_result),
                       argument_after |-> rerank_argument_after(entity_count,
                                                                evidence_result, found)])
    /\ UNCHANGED <<verification, retrieval, drift, scoring, audits, cache, clock, stored>>

-----------------------------------------------------------------------------
(* Inputs and operations of the drift mitigation layer *)

VerificationResult(claim_id, claim_text, category, confidence) ==
    [claim_id |-> claim_id, claim_text |-> claim_text, category |-> category,
     confidence |-> P(confidence)]

\* drift scores below the default threshold, between the default and the
\* larger layer threshold, and above both
DriftScores == {10, 30, 60}
\* what the drift detector reports: entries for the claim text "t3" and for
\* its paraphrase "t2"
ClaimDrifts == {ClaimDrift("t3", d) : d \in DriftScores}
               \cup {ClaimDrift("t2", d) : d \in DriftScores \ {10}}
DriftReports == {[claim_drifts |-> entries] : entries \in SeqsUpTo(ClaimDrifts, MaxDriftEntries)}
\* the reports analyze_drift is exercised with
AnalyzedReports == {[claim_drifts |-> <<ClaimDrift("t3", d)>>] : d \in {10, 60}}

\* "t1" has no entry, "t3" has exact and fuzzy ones
DriftInputResults == {VerificationResult("c1", "t1", Supported, 80),
                      VerificationResult("c3", "t3", Contradicted, 80),
                      VerificationResult("c3", "t3", Unverifiable, 50)}

\* the variance_threshold and confidence_penalty the layer is constructed
\* with: 0 for the setting
VarianceThresholds == {0, 50}
ConfidencePenalties == {0, 100}

\* the drift scores _calculate_penalty is exercised with
PenaltyInputs == DriftScores \cup {0, 20, 21, 50, 100}

\* the detector's report is cached on the layer and returned
AnalyzeDrift ==
    /\ op = "idle"
    /\ \E report \in AnalyzedReports :
          /\ Returned("analyze_drift", [report |-> <<report>>],
                      [raised |-> FALSE, value |-> <<report>>])
          /\ drift' = [drift EXCEPT !.drift_report = <<report>>]
    /\ UNCHANGED <<verification, retrieval, scoring, audits, cache, clock, stored>>

AdjustVerificationResults ==
    /\ op = "idle"
    /\ \E verification_results \in SeqsUpTo(DriftInputResults, MaxDriftResults),
          drift_report \in {<<>>} \cup {<<r>> : r \in DriftReports} :
          Returned("adjust_verification_results",
                   [verification_results |-> verification_results,
                    drift_report |-> drift_report],
                   [raised |-> FALSE,
                    value |-> adjust_verification_results(drift, verification_results,
                                                          drift_report)])
    /\ UNCHANGED <<verification, retrieval, drift, scoring, audits, cache, clock, stored>>

CalculatePenalty ==
    /\ op = "idle"
    /\ \E d \in PenaltyInputs :
          Returned("calculate_penalty", [drift_score |-> P(d)],
                   [raised |-> FALSE, value |-> calculate_penalty(drift, P(d))])
    /\ UNCHANGED <<verification, retrieval, drift, scoring, audits, cache, clock, stored>>

-----------------------------------------------------------------------------
(* Inputs and operations of the scoring layer *)

\* the kinds of verification result, by category and confidence; five
\* unverifiable results of confidence 0.66 and 0.67 score between 49.8 and
\* 50.1 under the default weights, on either side of a level boundary
ResultKinds ==
    <<[category |-> Supported, confidence |-> 80],
      [category |-> Supported, confidence |-> 50],
      [category |-> Contradicted, confidence |-> 80],
      [category |-> Contradicted, confidence |-> 50],
      [category |-> Unverifiable, confidence |-> 50],
      [category |-> Unverifiable, confidence |-> 66],
      [category |-> Unverifiable, confidence |-> 67]>>

\* result i is the verdict on claim i, with the text "t<i>"; the results are
\* listed by kind, as no operation of the layer depends on their order
ResultsOfKinds(kinds) ==
    [i \in DOMAIN kinds |->
        VerificationResult(i, "t" \o ToString(i), ResultKinds[kinds[i]].category,
                           ResultKinds[kinds[i]].confidence)]
ScoringResults ==
    UNION {{ResultsOfKinds(kinds) :
               kinds \in {k \in [1..n -> DOMAIN ResultKinds] :
                             \A i \in 1..n, j \in 1..n : i < j => k[i] <= k[j]}} :
           n \in 0..MaxResults}

\* a Claim, with its max_severity_weight in tenths
Claim(claim_id, weight) == [claim_id |-> claim_id, max_severity_weight |-> Rat(weight, 10)]
\* no claims; one claim per result, of equal severity or the first twice as
\* severe; the last result's claim only
ClaimLists(n) ==
    LET m == IF n = 0 THEN 1 ELSE n IN
    {<<>>,
     [i \in 1..m |-> Claim(i, 10)],
     [i \in 1..m |-> Claim(i, IF i = m THEN 20 ELSE 10)],
     <<Claim(m, 20)>>}

\* the drift reports the scoring is exercised with
ScoringReports == {[claim_drifts |-> <<ClaimDrift("t1", 60), ClaimDrift("t3", 30)>>],
                   [claim_drifts |-> <<ClaimDrift("t3", 10)>>]}
\* no drift results, or what adjust_verification_results returns for the
\* results (for one result when there are none)
DriftAdjusted(verification_results) ==
    LET adjusted == IF verification_results = <<>> THEN ResultsOfKinds(<<3>>)
                    ELSE verification_results IN
    {<<>>} \cup {adjust_verification_results(DriftMitigationLayerInit(0, 0), adjusted,
                                            <<report>>) : report \in ScoringReports}

\* the weights and the severity multiplier the layer is constructed with:
\* the settings; weights that sum to 2; a negative severity weight
ScoringLayers == {ScoringLayerInit(0, 0, 0, 0, 10),
                  ScoringLayerInit(50, 50, 50, 50, 20),
                  ScoringLayerInit(0, 0, 0, -100, 10)}

\* the caller is handed the TrustScore
TrustScored(name, passed, r) ==
    Returned(name, passed,
             [raised |-> FALSE, value |-> <<r.trust_score>>, final_score |-> r.final_score])

CalculateTrustScore ==
    /\ op = "idle"
    /\ \E verification_results \in ScoringResults :
          \E drift_adjusted_results \in DriftAdjusted(verification_results),
             claims \in ClaimLists(Len(verification_results)) :
             TrustScored("calculate_trust_score",
                     [verification_results |-> verification_results,
                      drift_adjusted_results |-> drift_adjusted_results,
                      claims |-> claims],
                     calculate_trust_score(scoring, verification_results,
                                           drift_adjusted_results, claims))
    /\ UNCHANGED <<verification, retrieval, drift, scoring, audits, cache, clock, stored>>

\* the caller serializes the TrustScore it was handed
ToDict ==
    /\ op = "calculate_trust_score"
    /\ Returned("to_dict", [trust_score |-> ret.value[1]],
                [raised |-> FALSE, value |-> <<to_dict(ret.value[1])>>])
    /\ UNCHANGED <<verification, retrieval, drift, scoring, audits, cache, clock, stored>>

-----------------------------------------------------------------------------
(* Inputs and operations of the cache manager *)

\* a manager is exercised with one key more than its memory cache admits
Key(i) == "k" \o ToString(i)
Keys == {Key(i) : i \in 1..(MaxMemoryItems + 1)}
KeysOf(manager) == {Key(i) : i \in 1..(manager.max_memory_items + 1)}
CacheValues == {"v1", "v2"}
\* the ttl argument of set: None, or 0 for an entry that expires with the
\* next second
Ttls == {<<>>, <<0>>}
\* the max_memory_items the manager is constructed with
MemorySizes == 0..MaxMemoryItems

\* persist=False is told apart from the default on a manager with a directory
Persists(manager) == IF manager.cache_dir THEN BOOLEAN ELSE {TRUE}

NothingStored == [last |-> [k \in Keys |-> <<>>], recent |-> <<>>]

\* the keys in the order of their last use by set or by a get that hit
Touched(recent, key) == Append(SelectSeq(recent, LAMBDA k : k # key), key)

CacheSet ==
    /\ op = "idle"
    /\ \E key \in KeysOf(cache), value \in CacheValues, ttl \in Ttls,
          persist \in Persists(cache) :
          LET r == set(cache, key, value, ttl, persist, clock) IN
          /\ Returned("set", [key |-> key, value |-> value, ttl |-> ttl, persist |-> persist],
                      [raised |-> r.raised, value |-> <<>>])
          /\ cache' = r.manager
          /\ stored' = IF r.raised \/ ~cache.enabled THEN stored
                       ELSE [last |-> [stored.last EXCEPT ![key] =
                                          <<CacheEntry(value, clock,
                                                       IF ttl # <<>> THEN ttl[1]
                                                       ELSE cache.default_ttl, key)>>],
                             recent |-> Touched(stored.recent, key)]
    /\ UNCHANGED <<verification, retrieval, drift, scoring, audits, clock>>

CacheGet ==
    /\ op = "idle"
    /\ \E key \in KeysOf(cache) :
          LET r == get(cache, key, clock) IN
          /\ Returned("get", [key |-> key], [raised |-> FALSE, value |-> r.value])
          /\ cache' = r.manager
          /\ stored' = IF r.value = <<>> THEN stored
                       ELSE [stored EXCEPT !.recent = Touched(stored.recent, key)]
    /\ UNCHANGED <<verification, retrieval, drift, scoring, audits, clock>>

CacheDelete ==
    /\ op = "idle"
    /\ \E key \in KeysOf(cache) :
          LET r == delete(cache, key) IN
          /\ Returned("delete", [key |-> key], [raised |-> FALSE, value |-> <<r.value>>])
          /\ cache' = r.manager
          /\ stored' = [last |-> [stored.last EXCEPT ![key] = <<>>],
                        recent |-> SelectSeq(stored.recent, LAMBDA k : k # key)]
    /\ UNCHANGED <<verification, retrieval, drift, scoring, audits, clock>>

\* a second passes between two calls
Tick ==
    /\ op = "idle"
    /\ clock < MaxTime
    /\ clock' = clock + 1
    /\ UNCHANGED <<op, args, ret, verification, retrieval, drift, scoring, audits, cache,
                   stored>>

\* no run_audit execution
NoAudits == <<>>

VerificationLayerInit == VerificationLayer(General, 0)

-----------------------------------------------------------------------------
(* UIIntegrationLayer.run_audit *)

\* the stages, by the names _report_progress is given, in the order of the code
Stages == <<"ingestion", "claims", "retrieval", "verification", "drift", "scoring",
            "report">>

\* plausible slip: the drift stage runs whenever the check is requested
drift_stage_runs_flag_only(request) ==
    request.run_drift_check

\* "if request.run_drift_check and request.regenerated_outputs"
drift_stage_runs(request) ==
    request.run_drift_check /\ request.regenerated_outputs # <<>>

\* IngestionLayer.process_documents: the chunks of every source, in order
process_documents(sources) == DocumentIndex(sources.name, sources.chunks)

\* Claim.max_severity_weight
max_severity_weight(entities) ==
    IF entities = <<>> THEN Rat(1, 1)
    ELSE LET S == {severity_weight(entities[i]) : i \in 1..Len(entities)}
         IN CHOOSE w \in S : \A v \in S : RLe(v, w)

\* ClaimIntelligenceLayer.extract_claims: one atomic claim per sentence of the
\* output, with an id of its own
extract_claims(llm_output) ==
    [i \in 1..Len(llm_output) |->
        [claim_id |-> "c" \o ToString(i),
         text |-> llm_output[i].text,
         entities |-> llm_output[i].entities,
         max_severity_weight |-> max_severity_weight(llm_output[i].entities)]]

\* the inner product of the claim's embedding with a chunk's (hundredths)
InnerProduct(claim, chunk) == IF chunk.chunk_id[2] = 1 THEN 100 ELSE 50

\* the BM25 score of the claim's words for an indexed chunk (hundredths)
BM25Score(claim, chunk) ==
    IF \E i \in 1..Len(claim.text), j \in 1..Len(chunk.content) :
          claim.text[i] = chunk.content[j]
    THEN 150 ELSE 0

\* what the NLI model answers for a claim and its evidence
ClassifyWithEvidences(claim) ==
    [entailment_score |-> P(95), contradiction_score |-> P(10), neutral_score |-> P(20)]

\* what the drift detector reports for the claims of the output
analyze_output_drift(request) ==
    LET claims == extract_claims(request.llm_output) IN
    [claim_drifts |-> [i \in 1..Len(claims) |-> ClaimDrift(claims[i].text, 60)]]

\* the retrieval stage on a layer: the scores are those of the chunks the
\* lexical index holds once it was ensured
RetrievalStageOn(layer, claims, doc_index) ==
    LET indexed == EnsureFor(layer, doc_index, "hybrid").layer IN
    retrieve_evidence_batch(layer, [i \in 1..Len(claims) |-> claims[i].claim_id],
        doc_index, "hybrid",
        [i \in 1..Len(claims) |->
            [j \in 1..Len(doc_index.chunks) |-> InnerProduct(claims[i], doc_index.chunks[j])]],
        [i \in 1..Len(claims) |->
            [j \in 1..Len(indexed.bm25_chunks) |->
                BM25Score(claims[i], indexed.bm25_chunks[j])]])

\* the verification stage with the threshold the layer holds
VerificationStageOn(layer, claims, evidences) ==
    verify_claims_batch(claims, evidences,
                        [i \in 1..Len(claims) |-> ClassifyWithEvidences(claims[i])],
                        layer.entity_match_threshold)

\* a run_audit execution that has not begun: its request and its locals
RunAudit(request) ==
    [pc |-> "ingestion", request |-> request, trace |-> <<>>,
     at_start |-> <<>>, doc_index |-> <<>>, claims |-> <<>>, evidences |-> <<>>,
     verification_results |-> <<>>, drift_report |-> <<>>, drift_adjusted |-> <<>>,
     scored_with |-> <<>>, trust_score |-> <<>>]

\* the run_audit executions on the one integration layer
AuditIds == {"a1", "a2"}

Sentence(text, entities) == [text |-> text, entities |-> entities]

\* an entity the evidence holds in a close spelling only: a match for the
\* general threshold, a possible contradiction for the law threshold
CloseEntity == [w |-> 20, exact |-> FALSE, best |-> 95]

AuditRequest(sources, llm_output, domain, run_drift_check, regenerated_outputs) ==
    [sources |-> sources, llm_output |-> llm_output, domain |-> domain,
     run_drift_check |-> run_drift_check, regenerated_outputs |-> regenerated_outputs]

\* a general and a law audit of the same statement, with and without
\* regenerated outputs and with and without the drift check requested; an
\* audit over sources without text
AuditRequests ==
    {AuditRequest([name |-> "A", chunks |-> 2], <<Sentence(<<"w">>, <<CloseEntity>>)>>,
                  General, TRUE, <<"regenerated">>),
     AuditRequest([name |-> "B", chunks |-> 1], <<Sentence(<<"w">>, <<CloseEntity>>)>>,
                  Law, TRUE, <<>>),
     AuditRequest([name |-> "A", chunks |-> 2], <<Sentence(<<"w">>, <<CloseEntity>>)>>,
                  Law, FALSE, <<"regenerated">>),
     AuditRequest([name |-> "E", chunks |-> 0], <<Sentence(<<"200">>, <<>>)>>,
                  General, FALSE, <<>>)}

\* the execution a takes a step: its record changes, the others' do not
Step(a, audit) == audits' = [audits EXCEPT ![a] = audit]

Reported(audit, stage) == Append(audit.trace, stage)

IngestionStage ==
    \E a \in AuditIds :
       /\ audits[a].pc = "ingestion"
       /\ Step(a, [audits[a] EXCEPT
                      !.pc = "claims",
                      !.trace = Reported(audits[a], "ingestion"),
                      !.at_start = <<[retrieval |-> retrieval,
                                      verification |-> verification]>>,
                      !.doc_index = <<process_documents(audits[a].request.sources)>>])
       /\ UNCHANGED <<op, args, ret, verification, retrieval, drift, scoring, cache, clock,
                      stored>>

ClaimsStage ==
    \E a \in AuditIds :
       /\ audits[a].pc = "claims"
       /\ Step(a, [audits[a] EXCEPT
                      !.pc = "retrieval",
                      !.trace = Reported(audits[a], "claims"),
                      !.claims = <<extract_claims(audits[a].request.llm_output)>>])
       /\ UNCHANGED <<op, args, ret, verification, retrieval, drift, scoring, cache, clock,
                      stored>>

RetrievalStage ==
    \E a \in AuditIds :
       /\ audits[a].pc = "retrieval"
       /\ LET r == RetrievalStageOn(retrieval, audits[a].claims[1], audits[a].doc_index[1])
          IN /\ retrieval' = r.layer
             /\ Step(a, IF r.raised
                        THEN [audits[a] EXCEPT
                                 !.pc = "failed",
                                 !.trace = Reported(audits[a], "retrieval")]
                        ELSE [audits[a] EXCEPT
                                 !.pc = "set_domain",
                                 !.trace = Reported(audits[a], "retrieval"),
                                 !.evidences = <<r.value>>])
       /\ UNCHANGED <<op, args, ret, verification, drift, scoring, cache, clock, stored>>

\* "self.verification.set_domain(request.domain)"
SetVerificationDomain ==
    \E a \in AuditIds :
       /\ audits[a].pc = "set_domain"
       /\ verification' = set_domain(verification, audits[a].request.domain)
       /\ Step(a, [audits[a] EXCEPT
                      !.pc = "verification",
                      !.trace = Reported(audits[a], "verification")])
       /\ UNCHANGED <<op, args, ret, retrieval, drift, scoring, cache, clock, stored>>

VerificationStage ==
    \E a \in AuditIds :
       /\ audits[a].pc = "verification"
       /\ LET v == VerificationStageOn(verification, audits[a].claims[1],
                                       audits[a].evidences[1])
          IN Step(a, IF v.raised
                     THEN [audits[a] EXCEPT !.pc = "failed"]
                     ELSE [audits[a] EXCEPT
                              !.pc = IF drift_stage_runs(audits[a].request)
                                     THEN "drift" ELSE "scoring",
                              !.verification_results = <<v.value>>])
       /\ UNCHANGED <<op, args, ret, verification, retrieval, drift, scoring, cache, clock,
                      stored>>

\* analyze_drift stores the detector's report on the layer ...
AnalyzeDriftStage ==
    \E a \in AuditIds :
       /\ audits[a].pc = "drift"
       /\ drift' = [drift EXCEPT !.drift_report = <<analyze_output_drift(audits[a].request)>>]
       /\ Step(a, [audits[a] EXCEPT
                      !.pc = "adjust",
                      !.trace = Reported(audits[a], "drift")])
       /\ UNCHANGED <<op, args, ret, verification, retrieval, scoring, cache, clock, stored>>

\* ... and returns what the layer holds then; the results are adjusted by it
AdjustStage ==
    \E a \in AuditIds :
       /\ audits[a].pc = "adjust"
       /\ Step(a, [audits[a] EXCEPT
                      !.pc = "scoring",
                      !.drift_report = drift.drift_report,
                      !.drift_adjusted =
                          <<adjust_verification_results(drift,
                                audits[a].verification_results[1], drift.drift_report)>>])
       /\ UNCHANGED <<op, args, ret, verification, retrieval, drift, scoring, cache, clock,
                      stored>>

\* drift_adjusted is None unless the drift stage assigned it
ScoringStage ==
    \E a \in AuditIds :
       /\ audits[a].pc = "scoring"
       /\ Step(a, [audits[a] EXCEPT
                      !.pc = "report",
                      !.trace = Reported(audits[a], "scoring"),
                      !.scored_with = <<audits[a].drift_adjusted>>,
                      !.trust_score =
                          <<calculate_trust_score(scoring,
                                audits[a].verification_results[1],
                                IF audits[a].drift_adjusted = <<>> THEN <<>>
                                ELSE audits[a].drift_adjusted[1],
                                audits[a].claims[1]).trust_score>>])
       /\ UNCHANGED <<op, args, ret, verification, retrieval, drift, scoring, cache, clock,
                      stored>>

\* corrections, the annotated claims and the report
ReportStage ==
    \E a \in AuditIds :
       /\ audits[a].pc = "report"
       /\ Step(a, [audits[a] EXCEPT
                      !.pc = "complete",
                      !.trace = Reported(audits[a], "report")])
       /\ UNCHANGED <<op, args, ret, verification, retrieval, drift, scoring, cache, clock,
                      stored>>

Init ==
    /\ op = "idle"
    /\ args = NoArgs
    /\ ret = NoRet
    /\ verification = VerificationLayerInit
    /\ retrieval = RetrievalLayerInit(DEFAULT_TOP_K)
    /\ drift = DriftMitigationLayerInit(0, 0)
    /\ scoring = ScoringLayerInit(0, 0, 0, 0, 10)
    /\ audits = NoAudits
    /\ cache = CacheManagerInit(FALSE, DEFAULT_TTL, DEFAULT_MAX_MEMORY_ITEMS, TRUE)
    /\ clock = 0
    /\ stored = NothingStored

Next == VerifyClaim \/ VerifyClaimsBatch \/ Return

Spec == Init /\ [][Next]_vars

\* the retrieval layer, constructed with a top_k of TopKs
InitRetrieval ==
    /\ op = "idle"
    /\ args = NoArgs
    /\ ret = NoRet
    /\ verification = VerificationLayerInit
    /\ \E k \in TopKs : retrieval = RetrievalLayerInit(k)
    /\ drift = DriftMitigationLayerInit(0, 0)
    /\ scoring = ScoringLayerInit(0, 0, 0, 0, 10)
    /\ audits = NoAudits
    /\ cache = CacheManagerInit(FALSE, DEFAULT_TTL, DEFAULT_MAX_MEMORY_ITEMS, TRUE)
    /\ clock = 0
    /\ stored = NothingStored

NextRetrieval == RetrieveEvidence \/ RetrieveEvidenceBatch \/ RerankByEntityMatch \/ Return

SpecRetrieval == InitRetrieval /\ [][NextRetrieval]_vars

\* the drift mitigation layer, constructed with the settings or with its own
\* threshold and penalty factor
InitDrift ==
    /\ op = "idle"
    /\ args = NoArgs
    /\ ret = NoRet
    /\ verification = VerificationLayerInit
    /\ retrieval = RetrievalLayerInit(DEFAULT_TOP_K)
    /\ \E variance_threshold \in VarianceThresholds,
          confidence_penalty \in ConfidencePenalties :
          drift = DriftMitigationLayerInit(variance_threshold, confidence_penalty)
    /\ scoring = ScoringLayerInit(0, 0, 0, 0, 10)
    /\ audits = NoAudits
    /\ cache = CacheManagerInit(FALSE, DEFAULT_TTL, DEFAULT_MAX_MEMORY_ITEMS, TRUE)
    /\ clock = 0
    /\ stored = NothingStored

NextDrift == AnalyzeDrift \/ AdjustVerificationResults \/ CalculatePenalty \/ Return

SpecDrift == InitDrift /\ [][NextDrift]_vars

\* the scoring layer, fed from a drift mitigation layer with the settings
InitScoring ==
    /\ op = "idle"
    /\ args = NoArgs
    /\ ret = NoRet
    /\ verification = VerificationLayerInit
    /\ retrieval = RetrievalLayerInit(DEFAULT_TOP_K)
    /\ drift = DriftMitigationLayerInit(0, 0)
    /\ scoring \in ScoringLayers
    /\ audits = NoAudits
    /\ cache = CacheManagerInit(FALSE, DEFAULT_TTL, DEFAULT_MAX_MEMORY_ITEMS, TRUE)
    /\ clock = 0
    /\ stored = NothingStored

NextScoring == CalculateTrustScore \/ ToDict \/ Return

SpecScoring == InitScoring /\ [][NextScoring]_vars

\* the cache manager, constructed with or without a directory
InitCache ==
    /\ op = "idle"
    /\ args = NoArgs
    /\ ret = NoRet
    /\ verification = VerificationLayerInit
    /\ retrieval = RetrievalLayerInit(DEFAULT_TOP_K)
    /\ drift = DriftMitigationLayerInit(0, 0)
    /\ scoring = ScoringLayerInit(0, 0, 0, 0, 10)
    /\ audits = NoAudits
    /\ \E cache_dir \in BOOLEAN, max_memory_items \in MemorySizes, enabled \in BOOLEAN :
          /\ cache_dir => max_memory_items <= MaxDiskMemoryItems
          /\ cache = CacheManagerInit(cache_dir, DEFAULT_TTL, max_memory_items, enabled)
    /\ clock = 0
    /\ stored = NothingStored

NextCache == CacheSet \/ CacheGet \/ CacheDelete \/ Tick \/ Return

SpecCache == InitCache /\ [][NextCache]_vars

\* the verification layer, constructed with or without its own threshold
InitEntity ==
    /\ op = "idle"
    /\ args = NoArgs
    /\ ret = NoRet
    /\ \E entity_match_threshold \in ThresholdArguments :
          verification = VerificationLayer(General, entity_match_threshold)
    /\ retrieval = RetrievalLayerInit(DEFAULT_TOP_K)
    /\ drift = DriftMitigationLayerInit(0, 0)
    /\ scoring = ScoringLayerInit(0, 0, 0, 0, 10)
    /\ audits = NoAudits
    /\ cache = CacheManagerInit(FALSE, DEFAULT_TTL, DEFAULT_MAX_MEMORY_ITEMS, TRUE)
    /\ clock = 0
    /\ stored = NothingStored

NextEntity == SetDomain \/ CheckEntityConsistency \/ Return

SpecEntity == InitEntity /\ [][NextEntity]_vars

\* the layers as the settings configure them, before any is constructed anew
InitConstruct ==
    /\ op = "idle"
    /\ args = NoArgs
    /\ ret = NoRet
    /\ verification = VerificationLayerInit
    /\ retrieval = RetrievalLayerInit(DEFAULT_TOP_K)
    /\ drift = DriftMitigationLayerInit(0, 0)
    /\ scoring = ScoringLayerInit(0, 0, 0, 0, 10)
    /\ audits = NoAudits
    /\ cache = CacheManagerInit(FALSE, DEFAULT_TTL, DEFAULT_MAX_MEMORY_ITEMS, TRUE)
    /\ clock = 0
    /\ stored = NothingStored

NextConstruct ==
    ConstructScoring \/ ConstructRetrieval \/ ConstructDrift \/ ConstructVerification
        \/ Return

SpecConstruct == InitConstruct /\ [][NextConstruct]_vars

\* the integration layer as constructed, and two run_audit executions handed
\* to the executor
InitAudit ==
    /\ op = "idle"
    /\ args = NoArgs
    /\ ret = NoRet
    /\ verification = VerificationLayerInit
    /\ retrieval = RetrievalLayerInit(DEFAULT_TOP_K)
    /\ drift = DriftMitigationLayerInit(0, 0)
    /\ scoring = ScoringLayerInit(0, 0, 0, 0, 10)
    /\ \E requests \in [AuditIds -> AuditRequests] :
          audits = [a \in AuditIds |-> RunAudit(requests[a])]
    /\ cache = CacheManagerInit(FALSE, DEFAULT_TTL, DEFAULT_MAX_MEMORY_ITEMS, TRUE)
    /\ clock = 0
    /\ stored = NothingStored

NextAudit ==
    \/ IngestionStage \/ ClaimsStage \/ RetrievalStage \/ SetVerificationDomain
    \/ VerificationStage \/ AnalyzeDriftStage \/ AdjustStage \/ ScoringStage
    \/ ReportStage

SpecAudit == InitAudit /\ [][NextAudit]_vars

-----------------------------------------------------------------------------
(* Properties of the verification layer *)

\* every (claim, evidence, NLI output, result) the last call produced
Verified ==
    IF op = "verify_claim"
    THEN {[claim |-> args.claim, evidence |-> args.evidence, nli |-> args.nli,
           result |-> ret.value[1]]}
    ELSE IF op = "verify_claims_batch" /\ ~ret.raised
    THEN {[claim |-> args.claims[i], evidence |-> args.evidences[i], nli |-> args.nlis[i],
           result |-> ret.value[i]] : i \in 1..Len(ret.value)}
    ELSE {}

\* the ones that went through decision fusion
Fused == {v \in Verified : v.result.nli_calls = 1}

RuleA(r) == /\ RGt(r.nli_result.entailment_score, P(80))
            /\ RGt(r.entity_consistency_score, P(90))
            /\ RGt(r.numerical_accuracy_score, P(80))
            /\ ~has_entity_contradiction(r.entity_matches)
RuleB(r) == RGt(r.nli_result.contradiction_score, P(70))
RuleC(r) == /\ has_entity_contradiction(r.entity_matches)
            /\ RLt(r.entity_consistency_score, P(70))
RuleD(r) == RLt(r.numerical_accuracy_score, P(50))
RuleE(r) == /\ RGt(r.nli_result.entailment_score, P(60))
            /\ RGt(r.entity_consistency_score, P(70))
            /\ ~has_entity_contradiction(r.entity_matches)

Verdict(r, category, confidence) ==
    r.category = category /\ REq(r.confidence, confidence)

\* C1: the fused verdict is the outcome of the first matching rule in the
\* order (a) strong support, (b) NLI contradiction, (c) entity contradiction,
\* (d) numerical mismatch, (e) moderate support, (f) unverifiable.
C1_FirstMatchingRule ==
    \A v \in Fused :
        LET r == v.result
            e == r.nli_result.entailment_score
            c == r.nli_result.contradiction_score
            n == r.nli_result.neutral_score
            es == r.entity_consistency_score
        IN /\ r.nli_result = v.nli
           /\ RuleA(r) => Verdict(r, Supported, IF RLe(e, es) THEN e ELSE es)
           /\ ~RuleA(r) /\ RuleB(r) => Verdict(r, Contradicted, c)
           /\ ~RuleA(r) /\ ~RuleB(r) /\ RuleC(r)
                 => Verdict(r, Contradicted, IF RGe(c, ROneMinus(es)) THEN c ELSE ROneMinus(es))
           /\ ~RuleA(r) /\ ~RuleB(r) /\ ~RuleC(r) /\ RuleD(r)
                 => Verdict(r, Contradicted, P(70))
           /\ ~RuleA(r) /\ ~RuleB(r) /\ ~RuleC(r) /\ ~RuleD(r) /\ RuleE(r)
                 => Verdict(r, Supported, RMul(e, es))
           /\ ~RuleA(r) /\ ~RuleB(r) /\ ~RuleC(r) /\ ~RuleD(r) /\ ~RuleE(r)
                 => Verdict(r, Unverifiable, IF RGe(n, P(50)) THEN n ELSE P(50))

\* a numerical mismatch decided before moderate support although both match
C1_Witness ==
    \E v \in Fused :
        /\ ~RuleA(v.result) /\ ~RuleB(v.result) /\ ~RuleC(v.result)
        /\ RuleD(v.result) /\ RuleE(v.result)
        /\ v.result.category = Contradicted

\* C2: with no evidence chunks verify_claim returns unverifiable with
\* confidence exactly 0.5, does not call the NLI classifier and does not raise.
C2_EmptyEvidenceUnverifiable ==
    /\ op = "verify_claim" => ~ret.raised
    /\ \A v \in Verified :
          v.evidence.evidence_chunks = <<>>
             => /\ v.result.category = Unverifiable
                /\ v.result.confidence = P(50)
                /\ v.result.nli_calls = 0

\* a claim with entities and a number, an NLI classifier that would say
\* contradiction, and no evidence chunk at all
C2_Witness ==
    /\ op = "verify_claim"
    /\ args.evidence.evidence_chunks = <<>>
    /\ args.claim.entities # <<>>
    /\ args.claim.text # <<>>
    /\ RGt(args.nli.contradiction_score, P(70))
    /\ ret.value[1].category = Unverifiable

\* C3: every result has one of the three categories and a confidence in [0,1].
C3_CategoryAndConfidenceRange ==
    \A v \in Verified :
        /\ v.result.category \in ClaimCategory
        /\ RGe(v.result.confidence, P(0))
        /\ RLe(v.result.confidence, P(100))

\* moderate support with a heavy fuzzy-matched entity: confidence is a product
C3_Witness ==
    \E v \in Fused :
        /\ v.result.category = Supported
        /\ RLt(v.result.confidence, v.result.nli_result.entailment_score)
        /\ \E i \in 1..Len(v.claim.entities) : v.claim.entities[i].w = 20

NumericScoreZero(v) ==
    /\ v.evidence.evidence_chunks # <<>>
    /\ v.result.nli_calls = 1
    /\ FindNumbers(v.claim.text) # <<>>
    /\ REq(v.result.numerical_accuracy_score, P(0))

C5_BatchLengthCheck ==
    op = "verify_claims_batch" =>
        IF Len(args.claims) # Len(args.evidences)
        THEN ret.raised /\ ret.value = <<>> /\ ret.nli_calls = 0
        ELSE /\ ~ret.raised
             /\ Len(ret.value) = Len(args.claims)
             /\ \A i \in 1..Len(args.claims) :
                   ret.value[i].claim_id = args.claims[i].claim_id

\* two claims against a single evidence result, the first of which could
\* have been verified
C5_Witness ==
    /\ op = "verify_claims_batch"
    /\ Len(args.claims) = 2
    /\ Len(args.evidences) = 1
    /\ args.evidences[1].evidence_chunks # <<>>
    /\ ret.raised

-----------------------------------------------------------------------------
(* Properties of the retrieval layer *)

\* the retrievals of the last call that returned: call i has the arguments
\* args.claims[i], args.vecs[i], args.kws[i], the search results
\* ret.searched[i] and the EvidenceResult ret.value[i]
RetrievalCalls ==
    IF op \in {"retrieve_evidence", "retrieve_evidence_batch"} /\ ~ret.raised
    THEN 1..Len(args.claims)
    ELSE {}

HybridCalls == {i \in RetrievalCalls : args.method = "hybrid"}

\* the positions of the search results that reach the similarity threshold
Reaching(results) ==
    {j \in 1..Len(results) : RGe(results[j].score, retrieval.similarity_threshold)}

\* the p-th smallest of a set of positions
Nth(S, p) == CHOOSE j \in S : Cardinality({h \in S : h < j}) = p - 1

Thresholded(results, keep, out) ==
    /\ Len(out.scores) = Len(out.evidence_chunks)
    /\ keep # {} =>
          /\ Len(out.evidence_chunks) = Cardinality(keep)
          /\ \A p \in 1..Cardinality(keep) :
                /\ out.evidence_chunks[p] = results[Nth(keep, p)].chunk
                /\ out.scores[p] = results[Nth(keep, p)].score
    /\ keep = {} /\ results # <<>> =>
          /\ out.evidence_chunks = <<results[1].chunk>>
          /\ out.scores = <<results[1].score>>
          /\ \A j \in 1..Len(results) : RGe(results[1].score, results[j].score)
    /\ out.evidence_chunks = <<>> <=> results = <<>>

\* C6: retrieve_evidence returns exactly the search results with score >=
\* the similarity threshold, in rank order; if none reaches it and the search
\* returned something, exactly the single highest-scoring result; and an empty
\* list only when the search returned nothing.
C6_ThresholdWithFallback ==
    \A i \in RetrievalCalls :
        Thresholded(ret.searched[i], Reaching(ret.searched[i]), ret.value[i])

\* two search results, neither reaching the threshold: the better one is kept
C6_Witness ==
    /\ op = "retrieve_evidence"
    /\ ~ret.raised
    /\ Len(ret.searched[1]) = 2
    /\ Reaching(ret.searched[1]) = {}
    /\ ret.value[1].evidence_chunks = <<ret.searched[1][1].chunk>>

\* the positions of the n best raw scores: DocumentIndex.search lists equal
\* scores by ascending position, np.argsort(...)[::-1] by descending position,
\* and keyword_search keeps the positive ones
VectorCandidates(vec, n) ==
    {c \in DOMAIN vec :
        Cardinality({d \in DOMAIN vec : vec[d] > vec[c] \/ (vec[d] = vec[c] /\ d < c)}) < n}
KeywordCandidates(kw, n) ==
    {c \in DOMAIN kw :
        /\ kw[c] > 0
        /\ Cardinality({d \in DOMAIN kw : kw[d] > kw[c] \/ (kw[d] = kw[c] /\ d > c)}) < n}

MaxOver(raw, S) == CHOOSE m \in {raw[c] : c \in S} : \A c \in S : raw[c] <= m

\* raw / max, the maximum being nonzero
DividedByMax(raw, max) == IF max > 0 THEN Rat(raw, max) ELSE Rat(-raw, -max)
\* raw / max when the maximum is positive, otherwise 0
DividedByPositiveMax(raw, max) == IF max > 0 THEN Rat(raw, max) ELSE P(0)

\* results is the fusion of the 2k best vector and 2k best keyword candidates
\* under the normalization Norm, cut to the k best
Fusion(results, k, vec, kw, doc_chunks, indexed_chunks, Norm(_, _)) ==
    LET VC == VectorCandidates(vec, 2 * k)
        KC == KeywordCandidates(kw, 2 * k)
        ids == {doc_chunks[c].chunk_id : c \in VC} \cup {indexed_chunks[c].chunk_id : c \in KC}
        vector_score(id) ==
            IF \E c \in VC : doc_chunks[c].chunk_id = id
            THEN Norm(vec[CHOOSE c \in VC : doc_chunks[c].chunk_id = id], MaxOver(vec, VC))
            ELSE P(0)
        keyword_score(id) ==
            IF \E c \in KC : indexed_chunks[c].chunk_id = id
            THEN Norm(kw[CHOOSE c \in KC : indexed_chunks[c].chunk_id = id], MaxOver(kw, KC))
            ELSE P(0)
        fused(id) == RAdd(RMul(retrieval.vector_weight, vector_score(id)),
                          RMul(retrieval.keyword_weight, keyword_score(id)))
        returned == {results[p].chunk.chunk_id : p \in 1..Len(results)}
    IN /\ Len(results) = MinInt(k, Cardinality(ids))
       /\ Cardinality(returned) = Len(results)
       /\ returned \subseteq ids
       /\ \A p \in 1..Len(results) :
             /\ REq(results[p].score, fused(results[p].chunk.chunk_id))
             /\ p < Len(results) => RGe(results[p].score, results[p + 1].score)
             /\ \A id \in ids \ returned : RGe(results[p].score, fused(id))

\* the maximum the vector scores of call i are divided by is not 0
DivisionDefined(vec, k) ==
    VectorCandidates(vec, 2 * k) # {} => MaxOver(vec, VectorCandidates(vec, 2 * k)) # 0

\* C7 as stated: hybrid_search fuses 2K vector and 2K lexical candidates,
\* each method's scores divided by that method's own maximum, 0 for the
\* missing method, into vector_weight * vector_score + keyword_weight *
\* keyword_score per distinct chunk, and returns at most K distinct chunks in
\* descending order of that score.
C7_DividedByOwnMaximum ==
    \A i \in HybridCalls :
        /\ DivisionDefined(args.vecs[i], retrieval.top_k)
        /\ Fusion(ret.searched[i], retrieval.top_k, args.vecs[i], args.kws[i],
                  args.doc_index.chunks, retrieval.bm25_chunks, DividedByMax)

\* C7 amended: as stated, except that a method's scores are divided by that
\* method's maximum only when the maximum is positive; when it is zero or
\* negative every score of that method is normalized to 0.
C7_DividedByPositiveMaximum ==
    \A i \in HybridCalls :
        Fusion(ret.searched[i], retrieval.top_k, args.vecs[i], args.kws[i],
               args.doc_index.chunks, retrieval.bm25_chunks, DividedByPositiveMax)

\* K = 1 over three chunks whose inner products are all negative, one of
\* them also found by the lexical search: it is returned with 0.4
C7_Witness ==
    /\ op = "retrieve_evidence"
    /\ ~ret.raised
    /\ args.method = "hybrid"
    /\ retrieval.top_k = 1
    /\ Len(args.doc_index.chunks) = 3
    /\ \A c \in 1..3 : args.vecs[1][c] < 0
    /\ Len(ret.searched[1]) = 1
    /\ REq(ret.searched[1][1].score, retrieval.keyword_weight)

\* C8: every fused score of hybrid retrieval lies in [0, 1 + entity bonus],
\* and every score rerank_by_entity_match returns is <= 1.0, for all raw
\* vector scores and all raw lexical scores.
C8_ScoresInRange ==
    /\ \A i \in HybridCalls : \A p \in 1..Len(ret.searched[i]) :
          /\ RGe(ret.searched[i][p].score, P(0))
          /\ RLe(ret.searched[i][p].score, P(100 + ENTITY_BONUS))
    /\ op = "rerank_by_entity_match" =>
          \A p \in 1..Len(ret.value[1].scores) : RLe(ret.value[1].scores[p], P(100))

\* the fused score of chunk id does not go down from first to second
NotSmaller(first, second, id) ==
    \A p \in 1..Len(first), q \in 1..Len(second) :
        first[p].chunk.chunk_id = id /\ second[q].chunk.chunk_id = id
            => RGe(second[q].score, first[p].score)

\* C9: with one chunk's raw vector score raised and everything else fixed,
\* that chunk's fused score is not smaller.
C9_FusionMonotonic ==
    \A i \in HybridCalls :
        \A x \in DOMAIN args.vecs[i] : \A raised \in VecVals :
            raised > args.vecs[i][x] =>
                NotSmaller(fused_scores(retrieval, args.doc_index, args.vecs[i],
                                        args.kws[i], retrieval.top_k * 2),
                           fused_scores(retrieval, args.doc_index,
                                        [args.vecs[i] EXCEPT ![x] = raised],
                                        args.kws[i], retrieval.top_k * 2),
                           args.doc_index.chunks[x].chunk_id)

\* C10: every hybrid or keyword query is scored against a lexical index
\* built from the chunks of the document index passed to that call.
C10_IndexOfCallDocuments ==
    RetrievalCalls # {} /\ args.method # "vector" =>
        /\ retrieval.bm25_built
        /\ retrieval.bm25_chunks = args.doc_index.chunks

\* C11: on a document index with zero chunks, retrieve_evidence raises no
\* error and returns an EvidenceResult with an empty ranked list, for every
\* claim and every search method.
C11_EmptyIndexEmptyResult ==
    op = "retrieve_evidence" /\ args.doc_index.chunks = <<>> =>
        /\ ~ret.raised
        /\ ret.value[1].evidence_chunks = <<>>
        /\ ret.value[1].scores = <<>>

\* the EvidenceResults the last call returned
EvidenceResults ==
    IF op \in {"retrieve_evidence", "rerank_by_entity_match"} /\ ~ret.raised
    THEN {ret.value[1]}
    ELSE {}

\* C12: the citation of every returned EvidenceResult with at least one chunk
\* is the citation string of that result's own first chunk.
C12_CitationOfTopChunk ==
    \A result \in EvidenceResults :
        result.evidence_chunks # <<>> =>
            result.citation = get_citation_string(result.evidence_chunks)

-----------------------------------------------------------------------------
(* Properties of the drift mitigation layer *)

\* C13: the drift penalty is 0 whenever the drift score is <= the variance
\* threshold, never exceeds 0.5, and is strictly larger for every larger
\* drift score above the threshold unless it has already reached 0.5.
C13_DriftPenalty ==
    op = "calculate_penalty" =>
        /\ RLe(args.drift_score, drift.variance_threshold) => REq(ret.value, P(0))
        /\ RLe(ret.value, P(PENALTY_CAP))
        /\ \A larger \in PenaltyInputs :
              RGt(P(larger), args.drift_score) /\ RGt(P(larger), drift.variance_threshold)
                  => \/ RGt(calculate_penalty(drift, P(larger)), ret.value)
                     \/ REq(ret.value, P(PENALTY_CAP))

\* a drift score above the threshold with a penalty strictly between 0 and 0.5
C13_Witness ==
    /\ op = "calculate_penalty"
    /\ RGt(args.drift_score, drift.variance_threshold)
    /\ RGt(ret.value, P(0))
    /\ RLt(ret.value, P(PENALTY_CAP))

\* the drift entry matched to result i of the last adjust_verification_results
\* call, from the report passed or else the one the layer cached
Matched(i) ==
    find_claim_drift(args.verification_results[i].claim_text,
                     IF args.drift_report # <<>> THEN args.drift_report
                     ELSE drift.drift_report)

\* min((drift_score - threshold) * confidence_penalty_factor * 5, 0.5)
LinearPenalty(drift_score) ==
    RMin(RMul(RMul(RSub(drift_score, drift.variance_threshold), drift.confidence_penalty),
              Rat(PENALTY_SCALE, 1)),
         P(PENALTY_CAP))

\* result i is adjusted as an unstable one with the given penalty
Penalised(i, penalty) ==
    /\ ~ret.value[i].is_stable
    /\ REq(ret.value[i].drift_penalty, penalty)
    /\ REq(ret.value[i].adjusted_confidence,
           RMul(args.verification_results[i].confidence, ROneMinus(penalty)))

\* result i is passed on as a stable one
Unadjusted(i) ==
    /\ ret.value[i].is_stable
    /\ REq(ret.value[i].drift_penalty, P(0))
    /\ ret.value[i].adjusted_confidence = args.verification_results[i].confidence

\* Adjusted(Pen): one result per verification result, in order; a result whose
\* matched entry reports instability is penalised by Pen(its drift score),
\* every other result is passed on unadjusted
Adjusted(Pen(_)) ==
    op = "adjust_verification_results" =>
        /\ Len(ret.value) = Len(args.verification_results)
        /\ \A i \in 1..Len(ret.value) :
              /\ ret.value[i].original_result = args.verification_results[i]
              /\ IF Matched(i) # <<>> /\ ~Matched(i)[1].is_stable
                 THEN Penalised(i, Pen(Matched(i)[1].drift_score))
                 ELSE Unadjusted(i)

\* C14 as stated: the penalty of an unstable entry is
\* min((drift_score - threshold) * confidence_penalty_factor * 5, 0.5).
C14_AdjustLinearPenalty == Adjusted(LinearPenalty)

\* the penalty is 0 up to the layer's threshold and linear, capped, above it
PenaltyAboveThreshold(drift_score) ==
    IF RLe(drift_score, drift.variance_threshold) THEN P(0)
    ELSE LinearPenalty(drift_score)

\* C14 (amended): a result whose matched entry reports instability is an
\* unstable result whose penalty is 0 if the drift score is <= the layer's
\* variance threshold and min((drift_score - threshold) * factor * 5, 0.5)
\* otherwise, with adjusted confidence = confidence * (1 - penalty); a result
\* whose entry is stable or that has no entry is stable, with penalty 0 and its
\* confidence unchanged.
C14_AdjustPenaltyAboveThreshold == Adjusted(PenaltyAboveThreshold)

\* one call with an unstable result that lost confidence and a stable one
C14_Witness ==
    /\ op = "adjust_verification_results"
    /\ \E i \in 1..Len(ret.value) :
          /\ ~ret.value[i].is_stable
          /\ RGt(ret.value[i].drift_penalty, P(0))
          /\ RLt(ret.value[i].adjusted_confidence, args.verification_results[i].confidence)
    /\ \E i \in 1..Len(ret.value) : ret.value[i].is_stable

-----------------------------------------------------------------------------
(* Properties of the scoring layer *)

\* the last call was calculate_trust_score; Results are the verification
\* results it was given and Trust is the TrustScore it returned
Scoring == op = "calculate_trust_score"
Results == args.verification_results
Trust == ret.value[1]
\* final_score of that call, the score before it is rounded
Score == ret.final_score[1]

\* C15: on an empty list of verification results calculate_trust_score
\* returns score 0, level low, total_claims 0 and the single recommendation
\* "No claims to verify", whatever drift results or claims are passed.
C15_EmptyResults ==
    Scoring /\ Results = <<>> =>
        /\ REq(Trust.score, P(0))
        /\ Trust.level = Low
        /\ Trust.total_claims = 0
        /\ Trust.recommendations = <<NoClaims>>

\* no verification results, but drift results and claims
C15_Witness ==
    /\ Scoring
    /\ Results = <<>>
    /\ args.drift_adjusted_results # <<>>
    /\ args.claims # <<>>
    /\ Len(Trust.recommendations) = 1

\* mean of the drift-adjusted confidences when drift results are present, of
\* the raw confidences otherwise
AvgConfidence ==
    IF args.drift_adjusted_results # <<>>
    THEN Mean([i \in 1..Len(args.drift_adjusted_results) |->
                  args.drift_adjusted_results[i].adjusted_confidence])
    ELSE Mean([i \in 1..Len(Results) |-> Results[i].confidence])

\* mean drift penalty, 0 without drift data
DriftScore ==
    IF args.drift_adjusted_results # <<>>
    THEN Mean([i \in 1..Len(args.drift_adjusted_results) |->
                  args.drift_adjusted_results[i].drift_penalty])
    ELSE P(0)

\* 100 * (supported_ratio*w1 + avg_confidence*w2 + (1 - drift_score)*w3
\*        + (1 - severity_score)*w4), clamped to [0, 100]
WeightedSum ==
    LET sum == RAdd(RAdd(RMul(Rat(CountOf(Results, Supported), Len(Results)),
                              scoring.weight_supported),
                         RMul(AvgConfidence, scoring.weight_confidence)),
                    RAdd(RMul(ROneMinus(DriftScore), scoring.weight_drift),
                         RMul(ROneMinus(Trust.breakdown.severity_score),
                              scoring.weight_severity)))
        scaled == RMul(sum, Rat(100, 1))
    IN IF RLt(scaled, Rat(0, 1)) THEN Rat(0, 1)
       ELSE IF RGt(scaled, Rat(100, 1)) THEN Rat(100, 1)
       ELSE scaled

InRange(score) == RGe(score, Rat(0, 1)) /\ RLe(score, Rat(100, 1))

\* score is a multiple of 0.1 at most 0.05 away from value
RoundedToTenth(score, value) ==
    /\ (score[1] * 10) % score[2] = 0
    /\ RLe(RSub(score, value), Rat(1, 20))
    /\ RLe(RSub(value, score), Rat(1, 20))

\* C16: for a non-empty result list the score computed is the clamped
\* weighted sum, with the average confidence and the drift score taken from
\* the drift-adjusted results when present, and lies in [0, 100] for all
\* weights; the TrustScore carries it rounded to one decimal place.
C16_ScoreIsWeightedSum ==
    Scoring /\ Results # <<>> =>
        /\ REq(Score, WeightedSum)
        /\ InRange(Score)
        /\ RoundedToTenth(Trust.score, Score)
        /\ InRange(Trust.score)
        /\ REq(Trust.breakdown.avg_confidence, AvgConfidence)
        /\ REq(Trust.breakdown.drift_score, DriftScore)

\* drift results with a penalty, which change the average confidence
C16_Witness ==
    /\ Scoring
    /\ Results # <<>>
    /\ args.drift_adjusted_results # <<>>
    /\ RGt(DriftScore, P(0))
    /\ ~REq(AvgConfidence, Mean([i \in 1..Len(Results) |-> Results[i].confidence]))
    /\ RGt(Score, Rat(0, 1))
    /\ RLt(Score, Rat(100, 1))

\* contradicted claims exceed 30% of all claims
ManyContradicted ==
    RGt(Rat(CountOf(Results, Contradicted), 1), RMul(Rat(Len(Results), 1), P(30)))

\* C17 as stated: high if score >= 80 and no claim is contradicted; otherwise
\* critical if the contradicted claims exceed 30%; otherwise medium if
\* score >= 50; otherwise low.
C17_LevelCriticalBeforeMedium ==
    Scoring /\ Results # <<>> =>
        Trust.level =
            IF RGe(Score, Rat(80, 1)) /\ CountOf(Results, Contradicted) = 0 THEN High
            ELSE IF ManyContradicted THEN Critical
            ELSE IF RGe(Score, Rat(50, 1)) THEN Medium
            ELSE Low

\* C17 (amended): high if score >= 80 and no claim is contradicted; otherwise
\* medium if score >= 50; otherwise critical if the contradicted claims
\* exceed 30%; otherwise low (score is the score computed, before it is
\* rounded for the TrustScore).
C17_LevelMediumBeforeCritical ==
    Scoring /\ Results # <<>> =>
        Trust.level =
            IF RGe(Score, Rat(80, 1)) /\ CountOf(Results, Contradicted) = 0 THEN High
            ELSE IF RGe(Score, Rat(50, 1)) THEN Medium
            ELSE IF ManyContradicted THEN Critical
            ELSE Low

\* more than 30% contradicted with a score of at least 50
C17_Witness ==
    /\ Scoring
    /\ Results # <<>>
    /\ ManyContradicted
    /\ RGe(Score, Rat(50, 1))
    /\ Trust.level = Medium

\* 5 results, 3 supported and 2 contradicted, each with confidence 0.8, the
\* default weights, no drift results and no claims
Scenario ==
    /\ Scoring
    /\ scoring = ScoringLayerInit(0, 0, 0, 0, 10)
    /\ Len(Results) = 5
    /\ CountOf(Results, Supported) = 3
    /\ CountOf(Results, Contradicted) = 2
    /\ \A i \in 1..5 : REq(Results[i].confidence, P(80))
    /\ args.drift_adjusted_results = <<>>
    /\ args.claims = <<>>

\* C18 as stated: the scenario scores 85.6 (to rounding), level medium.
C18_ScenarioScores856 ==
    Scenario =>
        /\ RoundedToTenth(Trust.score, Rat(856, 10))
        /\ Trust.level = Medium

\* C18 (amended): the scenario scores 74.0, with severity 0.4, level medium.
C18_ScenarioScores74 ==
    Scenario =>
        /\ REq(Trust.score, Rat(74, 1))
        /\ REq(Trust.breakdown.severity_score, P(40))
        /\ Trust.level = Medium

C18_Witness ==
    /\ Scenario
    /\ Trust.total_claims = 5
    /\ Trust.level = Medium

CountsSum(counts) == counts.supported + counts.contradicted + counts.unverifiable

\* C19: category_counts hold the number of results of each category and sum
\* to total_claims, the number of results; to_dict() hands on the same counts
\* and the same total.
C19_CategoryCounts ==
    /\ Scoring =>
          /\ Trust.category_counts.supported = CountOf(Results, Supported)
          /\ Trust.category_counts.contradicted = CountOf(Results, Contradicted)
          /\ Trust.category_counts.unverifiable = CountOf(Results, Unverifiable)
          /\ CountsSum(Trust.category_counts) = Trust.total_claims
          /\ Trust.total_claims = Len(Results)
    /\ op = "to_dict" =>
          /\ ret.value[1].category_counts = args.trust_score.category_counts
          /\ ret.value[1].total_claims = args.trust_score.total_claims
          /\ CountsSum(ret.value[1].category_counts) = ret.value[1].total_claims

\* a serialized TrustScore of results of all three categories
C19_Witness ==
    /\ op = "to_dict"
    /\ ret.value[1].category_counts.supported > 0
    /\ ret.value[1].category_counts.contradicted > 0
    /\ ret.value[1].category_counts.unverifiable > 1
    /\ ret.value[1].total_claims = MaxResults

\* the four triggers, in their order, each with its message
Triggered ==
    (IF CountOf(Results, Contradicted) > 0
     THEN <<ReviewContradicted(CountOf(Results, Contradicted))>> ELSE <<>>)
    \o (IF RGt(Rat(CountOf(Results, Unverifiable), 1),
               RMul(Rat(Len(Results), 1), P(30)))
        THEN <<LackEvidence>> ELSE <<>>)
    \o (IF RLt(Score, Rat(50, 1)) THEN <<LowTrustScore>> ELSE <<>>)
    \o (IF LowConfidenceCount(Results) > 3
        THEN <<LowConfidence(LowConfidenceCount(Results))>> ELSE <<>>)

\* C20: the recommendations of a non-empty audit are the messages of the
\* triggers that fire, in the fixed order, each independently of the others;
\* exactly one positive message is returned if and only if no trigger fires
\* (score is the score computed, before it is rounded for the TrustScore).
C20_Recommendations ==
    Scoring /\ Results # <<>> =>
        /\ Triggered # <<>> => Trust.recommendations = Triggered
        /\ Triggered = <<>> =>
              /\ Len(Trust.recommendations) = 1
              /\ Trust.recommendations[1] \in {PassesHigh, PassesMinor}
        /\ Trust.recommendations # <<>>

\* all four triggers fire together
C20_Witness ==
    /\ Scoring
    /\ Results # <<>>
    /\ Len(Triggered) = 4
    /\ Len(Trust.recommendations) = 4

\* the evidence text a verification worked on
EvidenceText(v) == get_combined_evidence(v.evidence, CombinedMaxChunks)

\* C28: every supported verdict has no entity contradiction, an entity score
\* above 0.7, an entailment score above 0.6 and a numeric consistency score of
\* at least 0.5.
C28_SupportedIsConsistent ==
    \A v \in Verified :
        v.result.category = Supported =>
            /\ \A i \in 1..Len(v.claim.entities) :
                  ~EntityMatchOf(v.claim.entities[i], EvidenceText(v),
                                 verification.entity_match_threshold).is_contradiction
            /\ ~has_entity_contradiction(v.result.entity_matches)
            /\ RGt(v.result.entity_consistency_score, P(70))
            /\ RGt(v.nli.entailment_score, P(60))
            /\ RGe(check_numerical_consistency(v.claim, EvidenceText(v)), P(50))
            /\ RGe(v.result.numerical_accuracy_score, P(50))

\* moderate support with half of the claim's numbers found in the evidence
C28_Witness ==
    \E v \in Verified :
        /\ v.result.category = Supported
        /\ ~RuleA(v.result)
        /\ REq(v.result.numerical_accuracy_score, P(50))
        /\ v.claim.entities # <<>>

\* C29: adjust_verification_results returns one result per verification
\* result, in order, wrapping the original unchanged, with
\* 0.5 * confidence <= adjusted_confidence <= confidence.
C29_AdjustedWithinHalf ==
    op = "adjust_verification_results" /\ RGe(drift.confidence_penalty, P(0)) =>
        /\ Len(ret.value) = Len(args.verification_results)
        /\ \A i \in 1..Len(ret.value) :
              LET original == args.verification_results[i] IN
              /\ ret.value[i].original_result = original
              /\ RLe(ret.value[i].adjusted_confidence, original.confidence)
              /\ RGe(ret.value[i].adjusted_confidence,
                     RMul(P(50), original.confidence))

\* two results in one call: one lowered, the other exactly halved by the
\* capped penalty
C29_Witness ==
    /\ op = "adjust_verification_results"
    /\ Len(ret.value) = 2
    /\ \E i, j \in 1..2 :
          /\ i # j
          /\ REq(ret.value[i].adjusted_confidence,
                 RMul(P(50), args.verification_results[i].confidence))
          /\ RLt(ret.value[j].adjusted_confidence, args.verification_results[j].confidence)
          /\ args.verification_results[1] # args.verification_results[2]

\* C30: zone and level agree with the reported score, the value rounded to
\* one decimal: the zone is the zone of the reported score, and a reported
\* score >= 80 with no contradicted claim has level high.
C30_ZoneAndLevelOfReportedScore ==
    Scoring /\ Results # <<>> =>
        /\ Trust.zone = get_zone(Trust.score)
        /\ RGe(Trust.score, Rat(80, 1)) /\ CountOf(Results, Contradicted) = 0
              => Trust.level = High

Reranked == op = "rerank_by_entity_match"

\* the argument's chunks, scores, retrieval method and citation are as they
\* were passed
ArgumentUnchanged ==
    /\ ret.argument_after.evidence_chunks = args.evidence_result.evidence_chunks
    /\ ret.argument_after.scores = args.evidence_result.scores
    /\ ret.argument_after.retrieval_method = args.evidence_result.retrieval_method
    /\ ret.argument_after.citation = args.evidence_result.citation

-----------------------------------------------------------------------------
(* Properties of the entity consistency check *)

Checked == op = "check_entity_consistency"
Threshold == verification.entity_match_threshold

\* what the two string comparisons yield for the i-th entity of the claim
ExactIn(i) == args.claim.entities[i].exact /\ args.text # <<>>
BestOf(i) == IF args.text = <<>> THEN 0 ELSE args.claim.entities[i].best

IsMatch(i) == ExactIn(i) \/ BestOf(i) >= Threshold
IsPossibleContradiction(i) == ~ExactIn(i) /\ BestOf(i) >= 50 /\ BestOf(i) < Threshold
IsNotFound(i) == ~ExactIn(i) /\ BestOf(i) < 50

\* the weight of an entity and the similarity it counts with, in hundredths
\* of tenths
WeightOf(i) == args.claim.entities[i].w
CountedSimilarity(i) ==
    IF ExactIn(i) THEN 100 ELSE IF BestOf(i) >= Threshold THEN BestOf(i) ELSE 0

\* C24: every claim entity is exactly one of match (exact substring with
\* similarity 1.0, or best similarity >= threshold), possible contradiction
\* (best similarity in [0.5, threshold)) and not found (best similarity below
\* 0.5, neither flag set); the entity score is the severity-weighted sum of
\* the matched similarities over the total weight, 1.0 without entities.
C24_EntityOutcomes ==
    Checked =>
        LET matches == ret.value[1]
            n == Len(args.claim.entities)
        IN /\ Len(matches) = n
           /\ \A i \in 1..n :
                 /\ matches[i].is_match = IsMatch(i)
                 /\ matches[i].is_contradiction = IsPossibleContradiction(i)
                 /\ ~(matches[i].is_match /\ matches[i].is_contradiction)
                 /\ ~matches[i].is_match /\ ~matches[i].is_contradiction <=> IsNotFound(i)
                 /\ ExactIn(i) => matches[i].similarity = P(100)
                 /\ IsNotFound(i) => matches[i].similarity = P(0)
           /\ ret.entity_score =
                 IF n = 0 THEN P(100)
                 ELSE Rat(SumSeq([i \in 1..n |-> CountedSimilarity(i) * WeightOf(i)]),
                          100 * SumSeq([i \in 1..n |-> WeightOf(i)]))

\* a match beside a possible contradiction at exactly 0.5, under a domain threshold
C24_Witness ==
    /\ Checked
    /\ Threshold = DOMAIN_CONFIGS[Law].entity_match_threshold
    /\ Len(ret.value[1]) = 2
    /\ ret.value[1][1].is_match /\ ~ExactIn(1)
    /\ ret.value[1][2].is_contradiction /\ BestOf(2) = 50
    /\ RLt(ret.entity_score, P(100))

-----------------------------------------------------------------------------
(* Properties of the cache manager *)

EntriesOf(entries) == {entries[i] : i \in 1..Len(entries)}

\* the entry is in the memory cache or in a file of the directory
Present(manager, entry) ==
    \/ entry \in EntriesOf(manager.memory_cache)
    \/ manager.cache_dir /\ entry \in EntriesOf(manager.files)

\* the entry of the most recent set(key, v), unless it was deleted, has
\* expired or was evicted
Live(key) ==
    /\ stored.last[key] # <<>>
    /\ ~is_expired(stored.last[key][1], clock)
    /\ Present(cache, stored.last[key][1])

\* C23: on an enabled manager get(k) returns the value of the most recent
\* set(k, v) while that entry is neither expired, deleted nor evicted, and
\* None for a key that holds no such entry.
C23_GetReturnsLastSet ==
    [][op' = "get" /\ cache.enabled =>
          ret'.value = IF Live(args'.key) THEN <<stored.last[args'.key][1].value>>
                       ELSE <<>>]_vars

\* the position of a key in the order of last use
UsedAt(key) == First({i \in 1..Len(stored.recent) : stored.recent[i] = key})

\* C27: the memory cache never holds more than max_memory_items entries, and
\* the entry a set or get removes to admit a key the cache does not hold is
\* the least recently used one.
C27_LRUEviction ==
    /\ [](Len(cache.memory_cache) <= cache.max_memory_items)
    /\ [][op' \in {"set", "get"} /\ ~Holds(cache.memory_cache, args'.key) =>
             \A k \in KeysOf(cache) :
                Holds(cache.memory_cache, k) /\ ~Holds(cache'.memory_cache, k) =>
                   \A j \in KeysOf(cache) :
                      Holds(cache.memory_cache, j) => UsedAt(k) <= UsedAt(j)]_vars

-----------------------------------------------------------------------------
(* Properties of run_audit *)

Verdicts(results) == [i \in 1..Len(results) |-> results[i].category]

\* the verdicts an execution has reached: None while it has none
OwnVerdicts(audit) ==
    IF audit.verification_results = <<>> THEN <<>>
    ELSE <<Verdicts(audit.verification_results[1])>>

\* the verdicts of the same request when no other execution takes a step
\* between its first stage and its verification: None when a stage raises
AloneVerdicts(audit) ==
    LET doc_index == process_documents(audit.request.sources)
        claims == extract_claims(audit.request.llm_output)
        r == RetrievalStageOn(audit.at_start[1].retrieval, claims, doc_index)
    IN IF r.raised THEN <<>>
       ELSE LET v == VerificationStageOn(set_domain(audit.at_start[1].verification,
                                                    audit.request.domain),
                                         claims, r.value)
            IN IF v.raised THEN <<>> ELSE <<Verdicts(v.value)>>

\* verification is over, or a stage raised
Settled(audit) == audit.pc = "failed" \/ audit.verification_results # <<>>

\* C21: under every interleaving of the audits on the shared layers, each
\* claim's verdict is the one it gets when its audit runs alone.
C21_VerdictsAsAlone ==
    \A a \in AuditIds :
       Settled(audits[a]) => OwnVerdicts(audits[a]) = AloneVerdicts(audits[a])

StageIndex(stage) == CHOOSE i \in 1..Len(Stages) : Stages[i] = stage

Ran(audit, stage) == \E i \in 1..Len(audit.trace) : audit.trace[i] = stage

DriftRequested(audit) ==
    audit.request.run_drift_check /\ audit.request.regenerated_outputs # <<>>

\* C22: the stages of an execution run in the order of Stages, none twice;
\* verification starts with the evidence of every claim, the drift stage
\* with the verdict of every claim and only when a drift check is requested
\* and regenerated outputs are given; scoring starts after these and is passed
\* the drift-adjusted results exactly when the drift stage ran; an execution
\* in which a stage raised takes no further step.
C22_StagesRunDownstream ==
    /\ [](\A a \in AuditIds :
             LET audit == audits[a] IN
             /\ \A i, j \in 1..Len(audit.trace) :
                   i < j => StageIndex(audit.trace[i]) < StageIndex(audit.trace[j])
             /\ Ran(audit, "verification") =>
                   /\ audit.evidences # <<>>
                   /\ Len(audit.evidences[1]) = Len(audit.claims[1])
             /\ Ran(audit, "drift") =>
                   /\ DriftRequested(audit)
                   /\ audit.verification_results # <<>>
                   /\ Len(audit.verification_results[1]) = Len(audit.claims[1])
             /\ Ran(audit, "scoring") =>
                   /\ audit.verification_results # <<>>
                   /\ Ran(audit, "drift") <=> DriftRequested(audit)
                   /\ audit.scored_with = <<audit.drift_adjusted>>
                   /\ audit.drift_adjusted # <<>> <=> Ran(audit, "drift")
                   /\ audit.drift_adjusted # <<>> =>
                         /\ Len(audit.drift_adjusted[1]) = Len(audit.claims[1])
                         /\ \A i \in 1..Len(audit.drift_adjusted[1]) :
                               audit.drift_adjusted[1][i].original_result
                                  = audit.verification_results[1][i])
    /\ [][\A a \in AuditIds : audits[a].pc = "failed" => audits'[a] = audits[a]]_vars

\* one execution completed with the drift stage, the other without it
\* although the check was requested, or failed in retrieval
C22_Witness ==
    /\ audits["a1"].pc = "complete"
    /\ audits["a1"].trace = Stages
    /\ audits["a1"].scored_with # <<<<>>>>
    /\ \/ /\ audits["a2"].pc = "failed"
          /\ audits["a2"].trace = <<"ingestion", "claims", "retrieval">>
       \/ /\ audits["a2"].pc = "complete"
          /\ audits["a2"].request.run_drift_check
          /\ ~Ran(audits["a2"], "drift")
          /\ audits["a2"].scored_with = <<<<>>>>

-----------------------------------------------------------------------------
(* Properties of the constructors *)

Constructed == op \in {"ScoringLayer", "RetrievalLayer", "DriftMitigationLayer",
                       "VerificationLayer"}

\* the layer uses the argument when one was passed, the setting otherwise
Uses(used, argument, setting) ==
    used = IF argument = <<>> THEN setting ELSE argument[1]

\* C26: every weight or threshold passed to a layer constructor is the value
\* the layer uses, 0 included; the settings default is used only when the
\* argument is omitted.
C26_ArgumentsUsedAsGiven ==
    /\ op = "ScoringLayer" =>
          LET layer == ret.value[1] IN
          /\ Uses(layer.weight_supported, IF args.weight_supported = <<>> THEN <<>>
                                           ELSE <<P(args.weight_supported[1])>>,
                  P(DEFAULT_WEIGHT_SUPPORTED_RATIO))
          /\ Uses(layer.weight_confidence, IF args.weight_confidence = <<>> THEN <<>>
                                            ELSE <<P(args.weight_confidence[1])>>,
                  P(DEFAULT_WEIGHT_AVG_CONFIDENCE))
          /\ Uses(layer.weight_drift, IF args.weight_drift = <<>> THEN <<>>
                                       ELSE <<P(args.weight_drift[1])>>,
                  P(DEFAULT_WEIGHT_DRIFT_SCORE))
          /\ Uses(layer.weight_severity, IF args.weight_severity = <<>> THEN <<>>
                                          ELSE <<P(args.weight_severity[1])>>,
                  P(DEFAULT_WEIGHT_SEVERITY))
    /\ op = "RetrievalLayer" =>
          LET layer == ret.value[1] IN
          /\ Uses(layer.top_k, args.top_k, DEFAULT_TOP_K)
          /\ Uses(layer.similarity_threshold,
                  IF args.similarity_threshold = <<>> THEN <<>>
                  ELSE <<P(args.similarity_threshold[1])>>,
                  P(DEFAULT_SIMILARITY_THRESHOLD))
          /\ Uses(layer.vector_weight, IF args.vector_weight = <<>> THEN <<>>
                                        ELSE <<P(args.vector_weight[1])>>,
                  P(DEFAULT_HYBRID_WEIGHT_VECTOR))
          /\ Uses(layer.keyword_weight, IF args.keyword_weight = <<>> THEN <<>>
                                         ELSE <<P(args.keyword_weight[1])>>,
                  P(DEFAULT_HYBRID_WEIGHT_KEYWORD))
    /\ op = "DriftMitigationLayer" =>
          LET layer == ret.value[1] IN
          /\ Uses(layer.variance_threshold,
                  IF args.variance_threshold = <<>> THEN <<>>
                  ELSE <<P(args.variance_threshold[1])>>,
                  P(DEFAULT_DRIFT_VARIANCE_THRESHOLD))
          /\ Uses(layer.confidence_penalty,
                  IF args.confidence_penalty = <<>> THEN <<>>
                  ELSE <<P(args.confidence_penalty[1])>>,
                  P(DEFAULT_DRIFT_CONFIDENCE_PENALTY))
    /\ op = "VerificationLayer" =>
          Uses(ret.value[1].entity_match_threshold, args.entity_match_threshold,
               DEFAULT_ENTITY_MATCH_THRESHOLD)

-----------------------------------------------------------------------------
TypeOK == op \in {"idle", "verify_claim", "verify_claims_batch", "retrieve_evidence",
                  "retrieve_evidence_batch", "rerank_by_entity_match", "analyze_drift",
                  "adjust_verification_results", "calculate_penalty",
                  "calculate_trust_score", "to_dict", "set", "get", "delete",
                  "ScoringLayer", "RetrievalLayer", "DriftMitigationLayer",
                  "VerificationLayer",
                  "set_domain", "check_entity_consistency"}
====
